---------------------------- MODULE Spec2Model ----------------------------
(***************************************************************************)
(* Verification model of the DGC platform backend (src/backend/app).       *)
(*                                                                         *)
(* The backend is a set of independent services behind a routing layer,    *)
(* so the model is a set of independent state machines over disjoint       *)
(* groups of variables, one specification per service:                     *)
(*   SpecIpfs    services/ipfs.py         IPFSService                      *)
(*   SpecUpload  api.py                   POST /api/upload, GET /api/content*)
(*   SpecMeta    models.py                Metadata (to_json / from_json)    *)
(*   SpecNft     api.py                   NFT index and GET /api/nfts       *)
(*   SpecGen     services/generation.py   GenerationService                 *)
(*   SpecApi     api.py                   lookup and validation endpoints   *)
(* A specification leaves the variables of the other groups unchanged.     *)
(*                                                                         *)
(* Conventions: a Python str is a sequence of code points, a bytes object  *)
(* a sequence of integers 0..255, a dict a function over its key set, and  *)
(* None is the string "None" where the other values are strings and the    *)
(* record field isNone elsewhere.                                          *)
(***************************************************************************)
EXTENDS Integers, Sequences, FiniteSets, TLC

VARIABLES
    \* ---- IPFSService (services/ipfs.py) ----
    storage,        \* self._storage : cid -> bytes
    pins,           \* self._pins : set of cids
    ipfs_metadata,  \* self._metadata : cid -> [size, pinned]
    uploads,        \* history: the (cid, bytes) pairs upload_content has returned
    ipfsRes,        \* outcome of the last IPFSService call
    \* ---- POST /api/upload, GET /api/content/{cid} (api.py) ----
    reqContent,     \* the 'content' string of the upload request of this run
    apiUpload,      \* the last answer of POST /api/upload
    apiGet          \* the last answer of GET /api/content/{cid}

ipfsVars == <<storage, pins, ipfs_metadata, uploads, ipfsRes>>
uploadVars == <<reqContent, apiUpload, apiGet>>

VARIABLES metaObj,     \* the Metadata object handed to validate and to_json
          metaDoc,     \* the JSON document handed to from_json
          metaValid,   \* what metaObj.validate() raised
          metaJson,    \* what metaObj.to_json() raised or returned
          metaBack,    \* what from_json(metaObj.to_json()) raised or returned
          metaParsed,  \* what from_json(metaDoc) raised or returned
          metaPc       \* position of the caller of validate/to_json/from_json

VARIABLES nft_index,     \* api._nft_index: the NFTs in insertion order of their token ids
          nftReq,        \* query parameters of the last GET /api/nfts
          nftResp,       \* its response
          nftPages       \* responses of the pages 1, 2, ... read in order with one query

nftVars == <<nft_index, nftReq, nftResp, nftPages>>

VARIABLES gen_jobs,    \* GenerationService._jobs of each service instance
          genCalls,    \* the calls of generate(): instance, request, position, result
          genRead      \* what the last get_job returned

genVars == <<gen_jobs, genCalls, genRead>>

VARIABLES dna_registry,      \* DNAEngine._dna_registry: the hashes registered
          emotion_profiles,  \* EmotionAI._profiles: the content ids with a profile
          executions,        \* AgentController._executions: the execution ids
          presets,           \* AgentController._presets: the preset ids
          apiResp            \* the status of the last response of the handlers below

apiVars == <<dna_registry, emotion_profiles, executions, presets, apiResp>>

metaVars == <<metaObj, metaDoc, metaValid, metaJson, metaBack, metaParsed, metaPc>>

VARIABLES addrCall     \* the last call that checked a creator address, and its outcome

addrVars == <<addrCall>>

VARIABLES agent_cancelled,   \* the agents of AgentController._agents with _cancelled set
          agent_executions,  \* AgentController._executions, by execution id
          agentRuns,         \* the coroutine of each execution: its arguments and where it is
          agentCancels       \* the calls of cancel_execution and what they returned

agentVars == <<agent_cancelled, agent_executions, agentRuns, agentCancels>>

VARIABLES walletClock,        \* the wall clock, in half seconds
          wallet_cache,       \* WalletDataService._wallet_cache
          gas_price_cache,    \* WalletDataService._gas_price_cache
          gas_price_updated,  \* WalletDataService._gas_price_updated
          gasCachedAt,        \* the clock when _gas_price_cache was last assigned
          walletMade,         \* the number of calls the handlers have made
          walletCalls,        \* the calls of get_wallet_data that have not returned
          gasCalls,           \* the calls of get_gas_price that wait for their RPC
          walletRes,          \* what the last get_wallet_data returned
          gasRes              \* what the last get_gas_price returned

walletVars == <<walletClock, wallet_cache, gas_price_cache, gas_price_updated,
                gasCachedAt, walletMade, walletCalls, gasCalls, walletRes, gasRes>>

VARIABLES engine_registry,  \* ContentDNAEngine._dna_registry: dna_hash -> ContentDNA
          dnaMade,          \* the number of calls made to the engine
          dnaRes            \* what the last call of the engine returned or raised

dnaVars == <<engine_registry, dnaMade, dnaRes>>

VARIABLES search_history,    \* SuggestionEngine._search_history: the queries searched
          popular_cache,     \* SuggestionEngine._popular_cache: lowered query -> count
          search_analytics,  \* BlockchainSearchEngine._search_analytics
          searchRes          \* the last search request and the response it got

searchVars == <<search_history, popular_cache, search_analytics, searchRes>>

VARIABLES emotion_history,  \* EmotionAI._emotion_history: content id -> list of states
          emotionLog,       \* per content id, every state recorded for it, in order
          emotionRes        \* what the last calculate_emotional_resonance returned

emotionVars == <<emotion_history, emotionLog, emotionRes>>

VARIABLES active_connections,    \* ConnectionManager.active_connections: type -> set
          wallet_subscriptions,  \* ConnectionManager.wallet_subscriptions: address -> set
          wsArgs,                \* the arguments each websocket was connected with
          wsLive,                \* the websockets whose endpoint still runs
          bcast                  \* the broadcast in progress, or the last one

connVars == <<active_connections, wallet_subscriptions, wsArgs, wsLive, bcast>>

VARIABLES latestBlock,            \* what _get_latest_block_number() returns now
          _running,               \* BlockchainEventListener._running
          _last_processed_block,  \* BlockchainEventListener._last_processed_block
          _processed_events,      \* BlockchainEventListener._processed_events
          listenerLoops,          \* the start_listening coroutines and where they are
          handlerRaised           \* the events whose handler has raised

listenerVars ==
    <<latestBlock, _running, _last_processed_block, _processed_events, listenerLoops,
      handlerRaised>>

\* the variables of the search, emotion, websocket and listener sections
lateVars == <<searchVars, emotionVars, connVars, listenerVars>>

\* the variables of the sections that follow the API handlers
restVars == <<addrVars, agentVars, walletVars, dnaVars, lateVars>>

(***************************************************************************)
(* Generic helpers                                                         *)
(***************************************************************************)
SeqsUpTo(S, n) == UNION {[1..k -> S] : k \in 0..n}

Min(a, b) == IF a < b THEN a ELSE b

EmptyDict == [k \in {} |-> 0]

RECURSIVE Concat(_)
Concat(ss) ==
    IF Len(ss) = 0 THEN <<>>
    ELSE IF Len(ss) = 1 THEN ss[1]
    ELSE LET h == Len(ss) \div 2
         IN  Concat(SubSeq(ss, 1, h)) \o Concat(SubSeq(ss, h + 1, Len(ss)))

\* Python slice seq[start:end] for 0 <= start <= end (0-based, end exclusive,
\* clamped to the length of the sequence).
\* A slice that takes the element at end as well.
PySliceInclusive(seq, start, end) ==
    LET lo == Min(start, Len(seq))
        hi == Min(end + 1, Len(seq))
    IN  IF hi <= lo THEN <<>> ELSE SubSeq(seq, lo + 1, hi)

PySlice(seq, start, end) ==
    LET lo == Min(start, Len(seq))
        hi == Min(end, Len(seq))
    IN  IF hi <= lo THEN <<>> ELSE SubSeq(seq, lo + 1, hi)

(***************************************************************************)
(* str.encode('utf-8'): one byte below U+0080, two below U+0800, three     *)
(* below U+10000; a lone surrogate raises UnicodeEncodeError.              *)
(***************************************************************************)
IsSurrogate(c) == c >= 55296 /\ c <= 57343

Utf8Char(c) ==
    IF c < 128 THEN <<c>>
    ELSE IF c < 2048 THEN <<192 + (c \div 64), 128 + (c % 64)>>
    ELSE <<224 + (c \div 4096), 128 + ((c \div 64) % 64), 128 + (c % 64)>>

EncodeUtf8(s) ==
    IF \E i \in 1..Len(s) : IsSurrogate(s[i])
    THEN [ok |-> FALSE, bytes |-> <<>>]
    ELSE [ok |-> TRUE, bytes |-> Concat([i \in 1..Len(s) |-> Utf8Char(s[i])])]

(***************************************************************************)
(* IPFSService                                                             *)
(***************************************************************************)
MaxContentLen == 1
MaxStored == 2

IpfsChars == {65, 233}      \* 'A' and U+00E9 (two bytes in UTF-8)
IpfsBytes == {65, 255}

\* sys.int_info.default_max_str_digits: the longest integer literal that
\* int(), and so json.loads, converts
INT_MAX_STR_DIGITS == 4300

\* the digit 9 repeated once more than that
LongIntegerContent ==
    [kind |-> "bytes", data |-> [i \in 1..(INT_MAX_STR_DIGITS + 1) |-> 57]]

\* The arguments a caller can pass as content: a str or a bytes object.
IpfsContents ==
    {[kind |-> "str", data |-> s] : s \in SeqsUpTo(IpfsChars, MaxContentLen)}
    \cup {[kind |-> "bytes", data |-> b] : b \in SeqsUpTo(IpfsBytes, MaxContentLen)}
    \cup {LongIntegerContent}

\* A CID that identifies the content by its length only; a digest that is
\* not collision free.
compute_cid_by_length(content) == <<"Qm", <<Len(content)>>>>

\* "Qm" + sha256(content).hexdigest()[:44]. SHA-256 is modelled as an ideal
\* (collision-free) digest: the CID determines the content.
compute_cid(content) == <<"Qm", content>>

ContentBytes(content) ==
    IF content.kind = "str" THEN EncodeUtf8(content.data)
    ELSE [ok |-> TRUE, bytes |-> content.data]

AllCids == {compute_cid(ContentBytes(c).bytes) : c \in IpfsContents}

NoRes == [op |-> "none", ok |-> TRUE, cid |-> <<"Qm", <<>>>>, size |-> 0, pinned |-> FALSE]

\* upload_content(content, pin): the body after the initial yield is atomic.
upload_content(content, pin) ==
    LET enc == ContentBytes(content)
        cid == compute_cid(enc.bytes)
    IN  /\ enc.ok
        /\ cid \in DOMAIN storage \/ Cardinality(DOMAIN storage) < MaxStored
        /\ storage' = [c \in DOMAIN storage \cup {cid} |->
                          IF c = cid THEN enc.bytes ELSE storage[c]]
        /\ pins' = IF pin THEN pins \cup {cid} ELSE pins
        /\ ipfs_metadata' = [c \in DOMAIN ipfs_metadata \cup {cid} |->
                          IF c = cid THEN [size |-> Len(enc.bytes), pinned |-> pin]
                          ELSE ipfs_metadata[c]]
        /\ uploads' = uploads \cup {[cid |-> cid, bytes |-> enc.bytes]}
        /\ ipfsRes' = [op |-> "upload", ok |-> TRUE, cid |-> cid,
                       size |-> Len(enc.bytes), pinned |-> pin]

\* The content type detection of get_content: json.loads of the decoded
\* bytes raises ValueError, which is not a JSONDecodeError and is not caught,
\* for an integer literal of more than INT_MAX_STR_DIGITS digits. The other
\* contents either do not decode, or parse, or raise JSONDecodeError.
IntegerLiteralTooLong(content_bytes) ==
    /\ Len(content_bytes) > INT_MAX_STR_DIGITS
    /\ content_bytes[1] \in 49..57
    /\ \A i \in 1..Len(content_bytes) : content_bytes[i] \in 48..57

\* get_content(cid) as a function of the state: ValueError when the CID is
\* not stored or the content type detection raises it, else the stored
\* bytes and their length.
get_content(cid) ==
    IF cid \notin DOMAIN storage
    THEN [ok |-> FALSE, content |-> <<>>, size |-> 0]
    ELSE IF IntegerLiteralTooLong(storage[cid])
    THEN [ok |-> FALSE, content |-> <<>>, size |-> 0]
    ELSE [ok |-> TRUE, content |-> storage[cid], size |-> Len(storage[cid])]

get_content_call(cid) ==
    /\ ipfsRes' = [op |-> "get", ok |-> get_content(cid).ok, cid |-> cid,
                   size |-> get_content(cid).size, pinned |-> FALSE]
    /\ UNCHANGED <<storage, pins, ipfs_metadata, uploads>>

\* A pin that does not look the CID up in the storage.
pin_unchecked(cid) ==
    /\ pins' = pins \cup {cid}
    /\ ipfs_metadata' = [c \in DOMAIN ipfs_metadata |->
           IF c = cid THEN [ipfs_metadata[c] EXCEPT !.pinned = TRUE]
           ELSE ipfs_metadata[c]]
    /\ ipfsRes' = [op |-> "pin", ok |-> cid \in DOMAIN storage, cid |-> cid,
                   size |-> 0, pinned |-> TRUE]
    /\ UNCHANGED <<storage, uploads>>

\* pin(cid): ValueError for a CID that is not stored.
pin(cid) ==
    IF cid \notin DOMAIN storage
    THEN /\ ipfsRes' = [op |-> "pin", ok |-> FALSE, cid |-> cid, size |-> 0, pinned |-> FALSE]
         /\ UNCHANGED <<storage, pins, ipfs_metadata, uploads>>
    ELSE /\ pins' = pins \cup {cid}
         /\ ipfs_metadata' = [c \in DOMAIN ipfs_metadata |->
                IF c = cid THEN [ipfs_metadata[c] EXCEPT !.pinned = TRUE]
                ELSE ipfs_metadata[c]]
         /\ ipfsRes' = [op |-> "pin", ok |-> TRUE, cid |-> cid, size |-> 0, pinned |-> TRUE]
         /\ UNCHANGED <<storage, uploads>>

\* An unpin that also drops the stored bytes (garbage collection).
unpin_and_collect(cid) ==
    /\ pins' = pins \ {cid}
    /\ storage' = [c \in DOMAIN storage \ {cid} |-> storage[c]]
    /\ ipfs_metadata' = [c \in DOMAIN ipfs_metadata \ {cid} |-> ipfs_metadata[c]]
    /\ ipfsRes' = [op |-> "unpin", ok |-> TRUE, cid |-> cid, size |-> 0, pinned |-> FALSE]
    /\ UNCHANGED uploads

\* unpin(cid): never fails, also for an unknown CID.
unpin(cid) ==
    /\ pins' = pins \ {cid}
    /\ ipfs_metadata' = [c \in DOMAIN ipfs_metadata |->
            IF c = cid THEN [ipfs_metadata[c] EXCEPT !.pinned = FALSE]
            ELSE ipfs_metadata[c]]
    /\ ipfsRes' = [op |-> "unpin", ok |-> TRUE, cid |-> cid, size |-> 0, pinned |-> FALSE]
    /\ UNCHANGED <<storage, uploads>>

is_pinned(cid) == cid \in pins

IpfsInit ==
    /\ storage = EmptyDict
    /\ pins = {}
    /\ ipfs_metadata = EmptyDict
    /\ uploads = {}
    /\ ipfsRes = NoRes

UploadContentStep == \E c \in IpfsContents, p \in BOOLEAN : upload_content(c, p)
GetContentStep == \E cid \in AllCids : get_content_call(cid)
PinStep == \E cid \in AllCids : pin(cid)
UnpinStep == \E cid \in AllCids : unpin(cid)

IpfsNext == UploadContentStep \/ GetContentStep \/ PinStep \/ UnpinStep


(***************************************************************************)
(* POST /api/upload and GET /api/content/{cid}                             *)
(***************************************************************************)
MaxReqLen == 5

\* 'A', '=', ' ' and U+00E9: a base64 digit, the pad, a character outside
\* the base64 alphabet, and a non-ASCII character.
UploadChars == {65, 61, 32, 233}

UploadStrings == SeqsUpTo(UploadChars, MaxReqLen)

\* binascii's table_a2b_base64: the 6-bit value of a base64 digit, 64 for
\* every other character.
B64Value(c) ==
    IF c >= 65 /\ c <= 90 THEN c - 65
    ELSE IF c >= 97 /\ c <= 122 THEN c - 71
    ELSE IF c >= 48 /\ c <= 57 THEN c + 4
    ELSE IF c = 43 THEN 62
    ELSE IF c = 47 THEN 63
    ELSE 64

\* binascii.a2b_base64 in its default, non-strict mode: characters outside
\* the alphabet are skipped, a complete pad sequence ends the input, and an
\* incomplete last quad is an error.
RECURSIVE a2b_base64(_, _, _, _, _, _)
a2b_base64(s, i, quad_pos, leftchar, npads, out) ==
    IF i > Len(s)
    THEN IF quad_pos # 0 THEN [ok |-> FALSE, bytes |-> <<>>]
         ELSE [ok |-> TRUE, bytes |-> out]
    ELSE IF s[i] = 61
    THEN IF quad_pos >= 2 /\ quad_pos + npads + 1 >= 4
         THEN [ok |-> TRUE, bytes |-> out]
         ELSE a2b_base64(s, i + 1, quad_pos, leftchar,
                         IF quad_pos >= 2 THEN npads + 1 ELSE npads, out)
    ELSE IF B64Value(s[i]) >= 64
    THEN a2b_base64(s, i + 1, quad_pos, leftchar, npads, out)
    ELSE LET v == B64Value(s[i])
         IN  CASE quad_pos = 0 -> a2b_base64(s, i + 1, 1, v, 0, out)
               [] quad_pos = 1 -> a2b_base64(s, i + 1, 2, v % 16, 0,
                                      Append(out, leftchar * 4 + (v \div 16)))
               [] quad_pos = 2 -> a2b_base64(s, i + 1, 3, v % 4, 0,
                                      Append(out, leftchar * 16 + (v \div 4)))
               [] OTHER -> a2b_base64(s, i + 1, 0, 0, 0,
                                      Append(out, leftchar * 64 + v))

\* base64.b64decode(s) of a str: ValueError for a non-ASCII character, else
\* binascii.a2b_base64 of its ASCII bytes.
b64decode(s) ==
    IF \E i \in 1..Len(s) : s[i] >= 128
    THEN [ok |-> FALSE, bytes |-> <<>>]
    ELSE a2b_base64(s, 1, 0, 0, 0, <<>>)

\* The bytes POST /api/upload stores for request.content: its base64
\* decoding, and its UTF-8 bytes only when the decoding raises.
DecodeUpload(s) ==
    IF b64decode(s).ok THEN b64decode(s).bytes ELSE EncodeUtf8(s).bytes

NoUpload == [status |-> 0, cid |-> <<"Qm", <<>>>>, size |-> 0, pinned |-> FALSE]
NoGet == [status |-> 0, cid |-> <<"Qm", <<>>>>, body |-> <<>>]

\* POST /api/upload
api_upload_content(s, p) ==
    /\ upload_content([kind |-> "bytes", data |-> DecodeUpload(s)], p)
    /\ apiUpload' = [status |-> 200, cid |-> ipfsRes'.cid, size |-> ipfsRes'.size,
                     pinned |-> ipfsRes'.pinned]
    /\ apiGet' = NoGet
    /\ UNCHANGED reqContent

\* GET /api/content/{cid}: 404 when get_content raises ValueError.
api_get_content(cid) ==
    /\ apiGet' = IF get_content(cid).ok
                 THEN [status |-> 200, cid |-> cid, body |-> get_content(cid).content]
                 ELSE [status |-> 404, cid |-> cid, body |-> <<>>]
    /\ UNCHANGED <<reqContent, apiUpload>>
    /\ UNCHANGED ipfsVars

UploadIdle ==
    /\ reqContent = <<>>
    /\ apiUpload = NoUpload
    /\ apiGet = NoGet

UploadInit ==
    /\ reqContent \in UploadStrings
    /\ apiUpload = NoUpload
    /\ apiGet = NoGet

ApiUploadStep == \E p \in BOOLEAN : api_upload_content(reqContent, p)
ApiGetStep == \E cid \in {apiUpload.cid, compute_cid(<<65>>)} : api_get_content(cid)
ApiUnpinStep == unpin(apiUpload.cid) /\ UNCHANGED uploadVars

UploadNext == ApiUploadStep \/ ApiGetStep \/ ApiUnpinStep


(***************************************************************************)
(* Metadata (models.py)                                                    *)
(*                                                                         *)
(* A Python or JSON scalar is a record [t, n, s]: the type tag, the        *)
(* integer payload and the character (or item) payload. A float is n/2, so *)
(* that 1.5 is Float(3). A dict-valued field is a record [t, d] whose d    *)
(* maps key scalars to value scalars when t = "dict".                      *)
(***************************************************************************)
PyStr(s) == [t |-> "str", n |-> 0, s |-> s]
PyInt(n) == [t |-> "int", n |-> n, s |-> <<>>]
PyFloat(n) == [t |-> "float", n |-> n, s |-> <<>>]
PyBool(b) == [t |-> "bool", n |-> IF b THEN 1 ELSE 0, s |-> <<>>]
PyNaN == [t |-> "nan", n |-> 0, s |-> <<>>]
PyNone == [t |-> "None", n |-> 0, s |-> <<>>]
PyTuple(s) == [t |-> "tuple", n |-> 0, s |-> s]
PyList(s) == [t |-> "list", n |-> 0, s |-> s]
PyBytes(s) == [t |-> "bytes", n |-> 0, s |-> s]
PyEnum(s) == [t |-> "enum", n |-> 0, s |-> s]

PyDict(d) == [t |-> "dict", d |-> d]
PyNotDict(tag) == [t |-> tag, d |-> EmptyDict]

IMAGE == <<73, 77, 65, 71, 69>>
TEXT == <<84, 69, 88, 84>>
MUSIC == <<77, 85, 83, 73, 67>>
VIDEO == <<86, 73, 68, 69, 79>>
ContentTypeValues == {IMAGE, TEXT, MUSIC}

ORIGINAL == <<79, 82, 73, 71, 73, 78, 65, 76>>
REMIX == <<82, 69, 77, 73, 88>>
EVOLUTION == <<69, 86, 79, 76, 85, 84, 73, 79, 78>>
DerivationTypeValues == {ORIGINAL, REMIX, EVOLUTION}

\* str.isspace of one character
IsSpace(c) ==
    \/ c >= 9 /\ c <= 13
    \/ c >= 28 /\ c <= 32
    \/ c \in {133, 160, 5760, 8232, 8233, 8239, 8287, 12288}
    \/ c >= 8192 /\ c <= 8202

\* isinstance(v, str) and v.strip() != ""
NonBlankStr(v) == v.t = "str" /\ \E i \in 1..Len(v.s) : ~IsSpace(v.s[i])

\* isinstance(v, int): bool is a subclass of int
IsInt(v) == v.t \in {"int", "bool"}

\* v <= 0 for the numbers; the comparison raises TypeError for the rest
\* and is False for NaN.
IsNumber(v) == v.t \in {"int", "bool", "float", "nan"}
LeqZero(v) == v.t # "nan" /\ v.n <= 0

\* creator_address.startswith("0x") and len(creator_address) == 42
AddressFormatOk(v) ==
    /\ Len(v.s) = 42
    /\ v.s[1] = 48
    /\ v.s[2] = 120

\* Metadata.validate(): the exception it raises, "none" when it passes. The
\* checks are made in the order of the code.
validate(m) ==
    LET string_fields == <<m.name, m.description, m.image, m.content_hash,
                           m.creator_address, m.prompt, m.model_version>>
        attr_bad(a) == ~NonBlankStr(a.trait_type) \/ a.value.t # "str"
        p == m.provenance
        e == m.evolution
    IN  IF \E i \in 1..7 : ~NonBlankStr(string_fields[i]) THEN "ValueError"
        ELSE IF ~AddressFormatOk(m.creator_address) THEN "ValueError"
        ELSE IF ~IsNumber(m.timestamp) THEN "TypeError"
        ELSE IF LeqZero(m.timestamp) THEN "ValueError"
        ELSE IF m.generation_parameters.t # "dict" THEN "ValueError"
        ELSE IF \E i \in 1..Len(m.attributes) : attr_bad(m.attributes[i]) THEN "ValueError"
        ELSE IF ~p.isNone /\ ~NonBlankStr(p.model_hash) THEN "ValueError"
        ELSE IF ~p.isNone /\ ~NonBlankStr(p.prompt_hash) THEN "ValueError"
        ELSE IF ~p.isNone /\ ~IsInt(p.seed) THEN "ValueError"
        ELSE IF ~p.isNone /\ ~IsNumber(p.timestamp) THEN "TypeError"
        ELSE IF ~p.isNone /\ LeqZero(p.timestamp) THEN "ValueError"
        ELSE IF ~p.isNone /\ ~NonBlankStr(p.creator) THEN "ValueError"
        ELSE IF ~p.isNone /\ p.collaborators.t # "list" THEN "ValueError"
        ELSE IF ~e.isNone /\ e.parent_tokens.t # "list" THEN "ValueError"
        ELSE IF ~e.isNone /\ \E i \in 1..Len(e.parent_tokens.items) :
                    ~IsInt(e.parent_tokens.items[i]) \/ e.parent_tokens.items[i].n < 0
             THEN "ValueError"
        ELSE "none"

\* str(n) of an integer: its decimal digits, with a leading '-'.
RECURSIVE Digits(_)
Digits(n) == IF n < 10 THEN <<48 + n>> ELSE Append(Digits(n \div 10), 48 + (n % 10))

DecStr(n) == IF n < 0 THEN <<45>> \o Digits(0 - n) ELSE Digits(n)

\* str(v) of the JSON values an attribute value can take here
StrOf(v) ==
    CASE v.t = "str" -> v
      [] v.t = "int" -> PyStr(DecStr(v.n))
      [] v.t = "bool" -> PyStr(IF v.n = 1 THEN <<84, 114, 117, 101>>
                                ELSE <<70, 97, 108, 115, 101>>)
      [] OTHER -> PyStr(<<78, 111, 110, 101>>)

\* json.dumps followed by json.loads on one value: a tuple comes back as a
\* list, bytes and plain Enum members are not serializable (TypeError).
Serializable(v) == v.t \notin {"bytes", "enum"}

JsonOfScalar(v) == IF v.t = "tuple" THEN PyList(v.s) ELSE v

\* The key of a JSON object is a string: json.dumps converts int, bool and
\* None keys.
JsonKey(k) ==
    CASE k.t = "str" -> k
      [] k.t = "int" -> PyStr(DecStr(k.n))
      [] k.t = "bool" -> PyStr(IF k.n = 1 THEN <<116, 114, 117, 101>>
                                ELSE <<102, 97, 108, 115, 101>>)
      [] OTHER -> PyStr(<<110, 117, 108, 108>>)

KeyTagOk(k) == k.t \in {"str", "int", "bool", "None"}

\* sort_keys=True compares the keys: a str key and a non-str key do not
\* compare (TypeError).
KeysSortable(d) ==
    \A k1, k2 \in DOMAIN d : k1 = k2 \/ (k1.t = "str") = (k2.t = "str")

DictSerializable(c) ==
    c.t = "dict" =>
        /\ \A k \in DOMAIN c.d : KeyTagOk(k) /\ Serializable(c.d[k])
        /\ KeysSortable(c.d)

\* json.dumps followed by json.loads on a dict-valued field
JsonOfDict(c) ==
    IF c.t # "dict" THEN c
    ELSE PyDict([jk \in {JsonKey(k) : k \in DOMAIN c.d} |->
                    JsonOfScalar(c.d[CHOOSE k \in DOMAIN c.d : JsonKey(k) = jk])])

ItemsSerializable(l) == \A i \in 1..Len(l.items) : Serializable(l.items[i])

JsonOfItems(l) ==
    [t |-> IF l.t = "tuple" THEN "list" ELSE l.t,
     items |-> [i \in 1..Len(l.items) |-> JsonOfScalar(l.items[i])]]

NoItems == [t |-> "list", items |-> <<>>]

NoProvenance ==
    [isNone |-> TRUE, model_version |-> PyNone, model_hash |-> PyNone,
     prompt_hash |-> PyNone, seed |-> PyNone, parameters |-> PyNotDict("None"),
     timestamp |-> PyNone, creator |-> PyNone, collaborators |-> NoItems]

NoEvolution == [isNone |-> TRUE, parent_tokens |-> NoItems, derivation_type |-> PyNone]

NoJsonProvenance ==
    [t |-> "dict", has |-> {}, model_version |-> PyNone, model_hash |-> PyNone,
     prompt_hash |-> PyNone, seed |-> PyNone, parameters |-> PyNotDict("None"),
     timestamp |-> PyNone, creator |-> PyNone, collaborators |-> NoItems]

NoJsonEvolution ==
    [t |-> "dict", has |-> {}, parent_tokens |-> NoItems, derivation_type |-> PyNone]

ProvenanceKeys == {"model_version", "model_hash", "prompt_hash", "seed",
                   "parameters", "timestamp", "creator", "collaborators"}

\* Metadata._to_dict and json.dumps(data, indent=2, sort_keys=True): the
\* exception raised ("none" when there is none) and the JSON document. The
\* document stands for the JSON text: with sorted keys the text is a
\* function of the document and the document of the text.
to_json(m) ==
    LET p == m.provenance
        e == m.evolution
        scalars == <<m.name, m.description, m.image, m.content_hash,
                     m.creator_address, m.prompt, m.model_version, m.timestamp>>
        pscalars == <<p.model_version, p.model_hash, p.prompt_hash, p.seed,
                      p.timestamp, p.creator>>
        attribute_error ==
            \/ m.content_type.t # "enum"
            \/ ~e.isNone /\ e.derivation_type.t # "enum"
        type_error ==
            \/ \E i \in 1..8 : ~Serializable(scalars[i])
            \/ ~DictSerializable(m.generation_parameters)
            \/ \E i \in 1..Len(m.attributes) :
                   ~Serializable(m.attributes[i].trait_type)
                   \/ ~Serializable(m.attributes[i].value)
            \/ ~p.isNone /\ ( \/ \E i \in 1..6 : ~Serializable(pscalars[i])
                              \/ ~DictSerializable(p.parameters)
                              \/ ~ItemsSerializable(p.collaborators) )
            \/ ~e.isNone /\ ~ItemsSerializable(e.parent_tokens)
        doc ==
            [kind |-> "dict",
             missing |-> (IF p.isNone THEN {"provenance"} ELSE {})
                         \cup (IF e.isNone THEN {"evolution"} ELSE {}),
             name |-> JsonOfScalar(m.name),
             description |-> JsonOfScalar(m.description),
             image |-> JsonOfScalar(m.image),
             content_type |-> PyStr(m.content_type.s),
             content_hash |-> JsonOfScalar(m.content_hash),
             creator_address |-> JsonOfScalar(m.creator_address),
             prompt |-> JsonOfScalar(m.prompt),
             model_version |-> JsonOfScalar(m.model_version),
             timestamp |-> JsonOfScalar(m.timestamp),
             generation_parameters |-> JsonOfDict(m.generation_parameters),
             attributes |-> [t |-> "list", items |->
                 [i \in 1..Len(m.attributes) |->
                     [isDict |-> TRUE, has |-> {"trait_type", "value"},
                      trait_type |-> JsonOfScalar(m.attributes[i].trait_type),
                      value |-> JsonOfScalar(m.attributes[i].value)]]],
             provenance |-> IF p.isNone THEN NoJsonProvenance
                 ELSE [t |-> "dict", has |-> ProvenanceKeys,
                       model_version |-> JsonOfScalar(p.model_version),
                       model_hash |-> JsonOfScalar(p.model_hash),
                       prompt_hash |-> JsonOfScalar(p.prompt_hash),
                       seed |-> JsonOfScalar(p.seed),
                       parameters |-> JsonOfDict(p.parameters),
                       timestamp |-> JsonOfScalar(p.timestamp),
                       creator |-> JsonOfScalar(p.creator),
                       collaborators |-> JsonOfItems(p.collaborators)],
             evolution |-> IF e.isNone THEN NoJsonEvolution
                 ELSE [t |-> "dict", has |-> {"parent_tokens", "derivation_type"},
                       parent_tokens |-> JsonOfItems(e.parent_tokens),
                       derivation_type |-> PyStr(e.derivation_type.s)]]
    IN  IF attribute_error THEN [exc |-> "AttributeError", doc |-> <<>>]
        ELSE IF type_error THEN [exc |-> "ValueError", doc |-> <<>>]
        ELSE [exc |-> "none", doc |-> doc]

RequiredFields == {"content_hash", "creator_address", "prompt", "model_version",
                   "timestamp", "generation_parameters", "name", "description",
                   "image", "content_type"}

\* ContentType(value) / DerivationType(value): the member with that value
IsEnumValue(v, values) == v.t = "str" /\ v.s \in values

\* Metadata._from_dict applied to the parsed document, as from_json calls
\* it: KeyError, TypeError and ValueError all leave from_json as
\* ValueError. "attributes" is a JSON array or null.
from_json(doc) ==
    LET has(f) == f \notin doc.missing
        a == doc.attributes
        p == doc.provenance
        e == doc.evolution
        attributes_bad ==
            has("attributes") /\
                ( \/ a.t # "list"
                  \/ \E i \in 1..Len(a.items) :
                        \/ ~a.items[i].isDict
                        \/ ~({"trait_type", "value"} \subseteq a.items[i].has) )
        provenance_bad ==
            has("provenance") /\
                ( \/ p.t # "dict"
                  \/ ~((ProvenanceKeys \ {"collaborators"}) \subseteq p.has) )
        evolution_bad ==
            has("evolution") /\
                ( \/ e.t # "dict"
                  \/ "derivation_type" \notin e.has
                  \/ ~IsEnumValue(e.derivation_type, DerivationTypeValues) )
        metadata ==
            [name |-> doc.name,
             description |-> doc.description,
             image |-> doc.image,
             content_type |-> PyEnum(doc.content_type.s),
             content_hash |-> doc.content_hash,
             creator_address |-> doc.creator_address,
             prompt |-> doc.prompt,
             model_version |-> doc.model_version,
             timestamp |-> doc.timestamp,
             generation_parameters |-> doc.generation_parameters,
             attributes |-> IF has("attributes")
                 THEN [i \in 1..Len(a.items) |->
                          [trait_type |-> a.items[i].trait_type,
                           value |-> StrOf(a.items[i].value)]]
                 ELSE <<>>,
             provenance |-> IF has("provenance")
                 THEN [isNone |-> FALSE,
                       model_version |-> p.model_version,
                       model_hash |-> p.model_hash,
                       prompt_hash |-> p.prompt_hash,
                       seed |-> p.seed,
                       parameters |-> p.parameters,
                       timestamp |-> p.timestamp,
                       creator |-> p.creator,
                       collaborators |-> IF "collaborators" \in p.has
                                         THEN p.collaborators ELSE NoItems]
                 ELSE NoProvenance,
             evolution |-> IF has("evolution")
                 THEN [isNone |-> FALSE,
                       parent_tokens |-> IF "parent_tokens" \in e.has
                                         THEN e.parent_tokens ELSE NoItems,
                       derivation_type |-> PyEnum(e.derivation_type.s)]
                 ELSE NoEvolution]
        raised == [exc |-> "ValueError", val |-> <<>>]
    IN  IF doc.kind # "dict" THEN raised
        ELSE IF \E f \in RequiredFields : ~has(f) THEN raised
        ELSE IF ~IsEnumValue(doc.content_type, ContentTypeValues) THEN raised
        ELSE IF attributes_bad THEN raised
        ELSE IF provenance_bad THEN raised
        ELSE IF evolution_bad THEN raised
        ELSE IF ~IsInt(doc.timestamp) THEN raised
        ELSE IF doc.generation_parameters.t # "dict" THEN raised
        ELSE IF validate(metadata) # "none" THEN raised
        ELSE [exc |-> "none", val |-> metadata]

\* a == b on two Python values: the numbers compare by value, NaN is equal
\* to nothing, the rest by type and content.
ScalarEq(a, b) ==
    IF a.t = "nan" \/ b.t = "nan" THEN FALSE
    ELSE IF IsNumber(a) /\ IsNumber(b) THEN a.n = b.n
    ELSE a = b

DictEq(c1, c2) ==
    /\ c1.t = c2.t
    /\ DOMAIN c1.d = DOMAIN c2.d
    /\ \A k \in DOMAIN c1.d : ScalarEq(c1.d[k], c2.d[k])

ItemsEq(l1, l2) ==
    /\ l1.t = l2.t
    /\ Len(l1.items) = Len(l2.items)
    /\ \A i \in 1..Len(l1.items) : ScalarEq(l1.items[i], l2.items[i])

\* The __eq__ the dataclass decorator generates: field by field.
MetadataEq(m1, m2) ==
    LET p1 == m1.provenance
        p2 == m2.provenance
        e1 == m1.evolution
        e2 == m2.evolution
    IN  /\ ScalarEq(m1.name, m2.name)
        /\ ScalarEq(m1.description, m2.description)
        /\ ScalarEq(m1.image, m2.image)
        /\ ScalarEq(m1.content_type, m2.content_type)
        /\ ScalarEq(m1.content_hash, m2.content_hash)
        /\ ScalarEq(m1.creator_address, m2.creator_address)
        /\ ScalarEq(m1.prompt, m2.prompt)
        /\ ScalarEq(m1.model_version, m2.model_version)
        /\ ScalarEq(m1.timestamp, m2.timestamp)
        /\ DictEq(m1.generation_parameters, m2.generation_parameters)
        /\ Len(m1.attributes) = Len(m2.attributes)
        /\ \A i \in 1..Len(m1.attributes) :
               /\ ScalarEq(m1.attributes[i].trait_type, m2.attributes[i].trait_type)
               /\ ScalarEq(m1.attributes[i].value, m2.attributes[i].value)
        /\ p1.isNone = p2.isNone
        /\ ~p1.isNone =>
               /\ ScalarEq(p1.model_version, p2.model_version)
               /\ ScalarEq(p1.model_hash, p2.model_hash)
               /\ ScalarEq(p1.prompt_hash, p2.prompt_hash)
               /\ ScalarEq(p1.seed, p2.seed)
               /\ DictEq(p1.parameters, p2.parameters)
               /\ ScalarEq(p1.timestamp, p2.timestamp)
               /\ ScalarEq(p1.creator, p2.creator)
               /\ ItemsEq(p1.collaborators, p2.collaborators)
        /\ e1.isNone = e2.isNone
        /\ ~e1.isNone =>
               /\ ItemsEq(e1.parent_tokens, e2.parent_tokens)
               /\ ScalarEq(e1.derivation_type, e2.derivation_type)

MaxDefects == 2

Str_a == PyStr(<<97>>)
Str_k == PyStr(<<107>>)
Address == PyStr(<<48, 120>> \o [i \in 1..40 |-> 97])
NonHexAddress == PyStr(<<48, 120>> \o [i \in 1..40 |-> 122])
ShortAddress == PyStr(<<48, 120, 97>>)

BaseMetadata ==
    [name |-> Str_a, description |-> Str_a, image |-> Str_a,
     content_type |-> PyEnum(IMAGE), content_hash |-> Str_a,
     creator_address |-> Address, prompt |-> Str_a, model_version |-> Str_a,
     timestamp |-> PyInt(1), generation_parameters |-> PyDict(EmptyDict),
     attributes |-> <<>>, provenance |-> NoProvenance, evolution |-> NoEvolution]

BaseProvenance ==
    [isNone |-> FALSE, model_version |-> Str_a, model_hash |-> Str_a,
     prompt_hash |-> Str_a, seed |-> PyInt(7), parameters |-> PyDict(EmptyDict),
     timestamp |-> PyInt(1), creator |-> Str_a, collaborators |-> NoItems]

BaseEvolution ==
    [isNone |-> FALSE,
     parent_tokens |-> [t |-> "list", items |-> <<PyInt(0), PyInt(1)>>],
     derivation_type |-> PyEnum(REMIX)]

Dict1(k, v) == PyDict([x \in {k} |-> v])

\* Metadata objects that differ from m in one field
MetadataVariants(m) ==
    {[m EXCEPT !.name = v] : v \in {PyStr(<<32>>), PyStr(<<233>>), PyBytes(<<97>>)}}
    \cup {[m EXCEPT !.content_type = v] : v \in {PyEnum(TEXT), PyStr(IMAGE)}}
    \cup {[m EXCEPT !.creator_address = v] : v \in {NonHexAddress, ShortAddress}}
    \cup {[m EXCEPT !.timestamp = v] :
             v \in {PyInt(0), PyInt(2), PyFloat(1), PyBool(TRUE), Str_a}}
    \cup {[m EXCEPT !.generation_parameters = v] :
             v \in {Dict1(Str_k, PyInt(1)), Dict1(PyInt(1), Str_a),
                    Dict1(Str_k, PyTuple(<<1, 2>>)), Dict1(Str_k, PyList(<<1, 2>>)),
                    Dict1(Str_k, PyNaN), Dict1(Str_k, PyBytes(<<97>>)),
                    PyDict([x \in {Str_k, PyInt(1)} |-> Str_a]),
                    PyNotDict("list")}}
    \cup {[m EXCEPT !.attributes = v] :
             v \in {<<[trait_type |-> Str_k, value |-> Str_a]>>,
                    <<[trait_type |-> Str_k, value |-> PyInt(1)]>>}}
    \cup {[m EXCEPT !.provenance = v] :
             v \in {BaseProvenance,
                    [BaseProvenance EXCEPT !.seed = PyBool(TRUE)],
                    [BaseProvenance EXCEPT !.parameters = Dict1(PyInt(1), Str_a)],
                    [BaseProvenance EXCEPT !.collaborators =
                        [t |-> "tuple", items |-> <<Str_a>>]]}}
    \cup {[m EXCEPT !.evolution = v] :
             v \in {BaseEvolution,
                    [BaseEvolution EXCEPT !.parent_tokens =
                        [t |-> "list", items |-> <<PyInt(-1)>>]],
                    [BaseEvolution EXCEPT !.derivation_type = PyStr(REMIX)]}}

RECURSIVE MetadataWithin(_)
MetadataWithin(n) ==
    IF n = 0 THEN {BaseMetadata}
    ELSE LET S == MetadataWithin(n - 1)
         IN  S \cup UNION {MetadataVariants(m) : m \in S}

MetadataObjects == MetadataWithin(MaxDefects)

BaseDoc == to_json(BaseMetadata).doc
BaseJsonProvenance == to_json([BaseMetadata EXCEPT !.provenance = BaseProvenance]).doc.provenance
BaseJsonEvolution == to_json([BaseMetadata EXCEPT !.evolution = BaseEvolution]).doc.evolution

JsonAttribute(tt, v) ==
    [isDict |-> TRUE, has |-> {"trait_type", "value"}, trait_type |-> tt, value |-> v]

\* JSON documents that differ from d in one member
DocVariants(d) ==
    {[d EXCEPT !.missing = @ \cup {f}] : f \in RequiredFields \cup {"attributes"}}
    \cup {[d EXCEPT !.kind = "list"]}
    \cup {[d EXCEPT !.name = v] : v \in {PyStr(<<>>), PyStr(<<32>>), PyInt(1), PyNone}}
    \cup {[d EXCEPT !.content_type = v] : v \in {PyStr(TEXT), PyStr(VIDEO), PyInt(1)}}
    \cup {[d EXCEPT !.creator_address = v] : v \in {NonHexAddress, ShortAddress}}
    \cup {[d EXCEPT !.timestamp = v] :
             v \in {PyInt(0), PyInt(-1), PyInt(2), PyBool(TRUE), PyFloat(1),
                    PyStr(<<49>>), PyNone}}
    \cup {[d EXCEPT !.generation_parameters = v] :
             v \in {Dict1(Str_k, PyInt(1)), PyNotDict("list"), PyNotDict("None")}}
    \cup {[d EXCEPT !.attributes = v] :
             v \in {[t |-> "None", items |-> <<>>],
                    [t |-> "list", items |-> <<JsonAttribute(Str_k, Str_a)>>],
                    [t |-> "list", items |-> <<JsonAttribute(Str_k, PyInt(5))>>],
                    [t |-> "list", items |-> <<JsonAttribute(PyStr(<<32>>), Str_a)>>],
                    [t |-> "list", items |->
                        <<[JsonAttribute(Str_k, Str_a) EXCEPT !.has = {"trait_type"}]>>],
                    [t |-> "list", items |->
                        <<[JsonAttribute(Str_k, Str_a) EXCEPT !.isDict = FALSE]>>]}}
    \cup {[d EXCEPT !.missing = @ \ {"provenance"}, !.provenance = v] :
             v \in {BaseJsonProvenance,
                    [BaseJsonProvenance EXCEPT !.t = "None"],
                    [BaseJsonProvenance EXCEPT !.has = @ \ {"seed"}],
                    [BaseJsonProvenance EXCEPT !.has = @ \ {"collaborators"}],
                    [BaseJsonProvenance EXCEPT !.seed = Str_a],
                    [BaseJsonProvenance EXCEPT !.timestamp = PyInt(0)],
                    [BaseJsonProvenance EXCEPT !.timestamp = Str_a]}}
    \cup {[d EXCEPT !.missing = @ \ {"evolution"}, !.evolution = v] :
             v \in {BaseJsonEvolution,
                    [BaseJsonEvolution EXCEPT !.t = "None"],
                    [BaseJsonEvolution EXCEPT !.has = @ \ {"derivation_type"}],
                    [BaseJsonEvolution EXCEPT !.has = @ \ {"parent_tokens"}],
                    [BaseJsonEvolution EXCEPT !.derivation_type = PyStr(IMAGE)],
                    [BaseJsonEvolution EXCEPT !.parent_tokens =
                        [t |-> "list", items |-> <<PyInt(-1)>>]]}}

RECURSIVE DocsWithin(_)
DocsWithin(n) ==
    IF n = 0 THEN {BaseDoc}
    ELSE LET S == DocsWithin(n - 1)
         IN  S \cup UNION {DocVariants(d) : d \in S}

JsonDocs == DocsWithin(MaxDefects)

Pending == [exc |-> "pending", val |-> <<>>]
PendingJson == [exc |-> "pending", doc |-> <<>>]

MetaIdle ==
    /\ metaObj = BaseMetadata
    /\ metaDoc = BaseDoc
    /\ metaValid = "pending"
    /\ metaJson = PendingJson
    /\ metaBack = Pending
    /\ metaParsed = Pending
    /\ metaPc = "start"

\* The caller holds either an object to serialize or a document to parse.
MetaInit ==
    /\ \/ metaObj \in MetadataObjects /\ metaDoc = BaseDoc
       \/ metaObj = BaseMetadata /\ metaDoc \in JsonDocs
    /\ metaValid = "pending"
    /\ metaJson = PendingJson
    /\ metaBack = Pending
    /\ metaParsed = Pending
    /\ metaPc = "start"

\* m.validate()
ValidateStep ==
    /\ metaPc = "start"
    /\ metaValid' = validate(metaObj)
    /\ metaPc' = "validated"
    /\ UNCHANGED <<metaObj, metaDoc, metaJson, metaBack, metaParsed>>

\* json_str = m.to_json()
ToJsonStep ==
    /\ metaPc = "validated"
    /\ metaJson' = to_json(metaObj)
    /\ metaPc' = "serialized"
    /\ UNCHANGED <<metaObj, metaDoc, metaValid, metaBack, metaParsed>>

\* Metadata.from_json(json_str)
FromJsonStep ==
    /\ metaPc = "serialized"
    /\ metaJson.exc = "none"
    /\ metaBack' = from_json(metaJson.doc)
    /\ metaPc' = "done"
    /\ UNCHANGED <<metaObj, metaDoc, metaValid, metaJson, metaParsed>>

\* Metadata.from_json(text) on a document that comes from outside
ParseStep ==
    /\ metaParsed.exc = "pending"
    /\ metaParsed' = from_json(metaDoc)
    /\ UNCHANGED <<metaObj, metaDoc, metaValid, metaJson, metaBack, metaPc>>

MetaNext ==
    \/ ValidateStep
    \/ ToJsonStep
    \/ FromJsonStep
    \/ ParseStep

(***************************************************************************)
(* NFT index and GET /api/nfts (api.py)                                    *)
(***************************************************************************)
MaxTokenId == 3
MaxPage == 3
MaxPageSize == 2

Addr_ab == <<48, 120, 97, 98>>
Addr_AB == <<48, 120, 65, 66>>
Addr_CD == <<48, 120, 67, 68>>

\* NFTMetadata: the members GET /api/nfts reads
NftRecords ==
    {[token_id |-> id, content_type |-> k[1], creator_address |-> k[2]] :
        id \in 1..MaxTokenId,
        k \in {<<IMAGE, Addr_ab>>, <<TEXT, Addr_ab>>, <<IMAGE, Addr_CD>>}}

\* an Optional[str] query parameter
Absent == [isNone |-> TRUE, s |-> <<>>]
Given(s) == [isNone |-> FALSE, s |-> s]

NftRequests ==
    [page : 1..MaxPage, page_size : 1..MaxPageSize,
     content_type : {Absent, Given(IMAGE)},
     creator : {Absent, Given(<<>>), Given(Addr_AB)}]

\* A comparison of addresses that distinguishes letter case.
SameCase(s) == s

\* str.lower() on ASCII text
Lower(s) == [i \in 1..Len(s) |-> IF s[i] >= 65 /\ s[i] <= 90 THEN s[i] + 32 ELSE s[i]]

IndexOfToken(token_id) ==
    IF \E i \in 1..Len(nft_index) : nft_index[i].token_id = token_id
    THEN CHOOSE i \in 1..Len(nft_index) : nft_index[i].token_id = token_id
    ELSE 0

\* list_nfts: the NFTListResponse. A ContentTypeEnum member is never
\* falsy; an empty creator string is.
list_nfts(page, page_size, content_type, creator) ==
    LET values == nft_index
        by_type == IF ~content_type.isNone
                   THEN SelectSeq(values, LAMBDA n : n.content_type = content_type.s)
                   ELSE values
        filtered == IF ~creator.isNone /\ creator.s # <<>>
                    THEN SelectSeq(by_type,
                             LAMBDA n : Lower(n.creator_address) = Lower(creator.s))
                    ELSE by_type
        start == (page - 1) * page_size
        end == start + page_size
    IN  [status |-> 200, nfts |-> PySlice(filtered, start, end),
         total |-> Len(filtered), page |-> page, page_size |-> page_size]

NoNftRequest == [page |-> 1, page_size |-> 1, content_type |-> Absent, creator |-> Absent]
NoNftResponse == [status |-> 0, nfts |-> <<>>, total |-> 0, page |-> 0, page_size |-> 0]

NftInit ==
    /\ nft_index = <<>>
    /\ nftReq = NoNftRequest
    /\ nftResp = NoNftResponse
    /\ nftPages = <<>>

\* The client keeps the responses of GET /api/nfts only as long as the
\* index they were computed from is unchanged.
ForgetResponses ==
    /\ nftReq' = NoNftRequest
    /\ nftResp' = NoNftResponse
    /\ nftPages' = <<>>

\* POST /api/internal/index-nft: _nft_index[metadata.token_id] = metadata
index_nft(metadata) ==
    LET i == IndexOfToken(metadata.token_id)
    IN  /\ nft_index' = IF i = 0 THEN Append(nft_index, metadata)
                        ELSE [nft_index EXCEPT ![i] = metadata]
        /\ IF nft_index' = nft_index
           THEN UNCHANGED <<nftReq, nftResp, nftPages>>
           ELSE ForgetResponses

\* DELETE /api/internal/index-nft/{token_id}
remove_nft_index(token_id) ==
    LET i == IndexOfToken(token_id)
    IN  /\ nft_index' = IF i = 0 THEN nft_index
                        ELSE SubSeq(nft_index, 1, i - 1)
                             \o SubSeq(nft_index, i + 1, Len(nft_index))
        /\ IF i = 0
           THEN UNCHANGED <<nftReq, nftResp, nftPages>>
           ELSE ForgetResponses

\* GET /api/nfts. A client that asks for page 1 and then, with the same
\* page size and filters, for each next page collects the pages in nftPages.
ListNftsStep ==
    \E req \in NftRequests :
        LET resp == list_nfts(req.page, req.page_size, req.content_type, req.creator)
            continues ==
                /\ nftPages # <<>>
                /\ req = [nftReq EXCEPT !.page = @ + 1]
        IN  /\ nftReq' = req
            /\ nftResp' = resp
            /\ nftPages' = IF continues THEN Append(nftPages, resp)
                           ELSE IF req.page = 1 THEN <<resp>>
                           ELSE <<>>
            /\ UNCHANGED nft_index

IndexNftStep == \E metadata \in NftRecords : index_nft(metadata)

RemoveNftIndexStep == \E token_id \in 1..MaxTokenId : remove_nft_index(token_id)

NftNext ==
    \/ IndexNftStep
    \/ RemoveNftIndexStep
    \/ ListNftsStep

(***************************************************************************)
(* GenerationService (services/generation.py)                              *)
(***************************************************************************)
MaxCalls == 2
NumServices == 2
MaxTime == 1

Services == 1..NumServices
Times == 1..MaxTime

\* what int(time.time() * 1000) % 2**32 can give
ClockSeeds == {3, 4}

Prompt_a == <<97>>
Prompt_surrogate == <<97, 55296>>
Prompts == {Prompt_a, Prompt_surrogate}

NoneInt == [isNone |-> TRUE, n |-> 0]
SomeInt(n) == [isNone |-> FALSE, n |-> n]

NoneParameters == [isNone |-> TRUE, d |-> EmptyDict]
Parameters(d) == [isNone |-> FALSE, d |-> d]

\* GenerationRequest objects that pass __post_init__
GenerationRequests ==
    [prompt : Prompts,
     content_type : {IMAGE, TEXT, MUSIC},
     seed : {NoneInt, SomeInt(2)},
     parameters : {NoneParameters, Parameters(EmptyDict),
                   Parameters([k \in {"max_tokens"} |-> 5])}]

IMAGE_MODEL_VERSION == "stable-diffusion-xl-1.0"
TEXT_MODEL_VERSION == "gpt-4-turbo"
MUSIC_MODEL_VERSION == "musicgen-large"

_get_model_version(content_type) ==
    CASE content_type = IMAGE -> IMAGE_MODEL_VERSION
      [] content_type = TEXT -> TEXT_MODEL_VERSION
      [] content_type = MUSIC -> MUSIC_MODEL_VERSION

\* random.Random(seed): the i-th draw below n. The generator is a function
\* of the seed alone; the function here stands for the Mersenne Twister.
RngDraw(seed, i, n) == (seed * 31 + i * 7 + 3) % n

MaxRngBytes == 4

\* bytes([rng.randint(0, 255) for _ in range(100)]), of which the first
\* MaxRngBytes are kept
RngBytes(seed) == [i \in 1..MaxRngBytes |-> RngDraw(seed, i, 256)]

\* parameters.get(key, default)
DictGet(d, key, default) == IF key \in DOMAIN d THEN d[key] ELSE default

DGC_IMAGE_TAG == <<68, 71, 67, 95, 73, 77, 65, 71, 69, 58>>
DGC_MUSIC_TAG == <<68, 71, 67, 95, 77, 85, 83, 73, 67, 58>>
GENERATED_FROM == <<71, 101, 110, 101, 114, 97, 116, 101, 100, 32, 102, 114, 111, 109, 32, 112, 114, 111, 109, 112, 116, 58, 32, 39>>

NoContent == [isNone |-> TRUE, isStr |-> FALSE, v |-> <<>>]
BytesContent(b) == [isNone |-> FALSE, isStr |-> FALSE, v |-> b]
StrContent(s) == [isNone |-> FALSE, isStr |-> TRUE, v |-> s]

\* _generate_image / _generate_music after the sleep: the header is encoded
\* as UTF-8, which raises for a lone surrogate in the first 20 characters
\* of the prompt.
GenerateBinary(tag, prompt, seed) ==
    LET header == EncodeUtf8(tag \o DecStr(seed) \o <<58>> \o PySlice(prompt, 0, 20) \o <<58>>)
    IN  IF header.ok
        THEN [exc |-> "none", content |-> BytesContent(header.bytes \o RngBytes(seed))]
        ELSE [exc |-> "UnicodeEncodeError", content |-> NoContent]

_generate_image(prompt, seed, parameters) == GenerateBinary(DGC_IMAGE_TAG, prompt, seed)

_generate_music(prompt, seed, parameters) == GenerateBinary(DGC_MUSIC_TAG, prompt, seed)

\* " ".join of the words drawn; a word is written as the digit of its index
\* in the list of ten words.
JoinWords(seed, n) ==
    Concat([i \in 1..n |-> IF i = 1 THEN <<48 + RngDraw(seed, i, 10)>>
                           ELSE <<32, 48 + RngDraw(seed, i, 10)>>])

_generate_text(prompt, seed, parameters) ==
    LET max_tokens == DictGet(parameters, "max_tokens", 1000)
        count == Min(max_tokens \div 5, 50)
    IN  [exc |-> "none",
         content |-> StrContent(GENERATED_FROM \o prompt \o <<39, 10, 10>>
                                \o JoinWords(seed, count))]

NoHash == [isNone |-> TRUE, v |-> <<>>]

\* _compute_content_hash: "0x" and the SHA-256 digest of the bytes, taken as
\* an injective function of them; a str is encoded first.
_compute_content_hash(content) ==
    LET enc == IF content.isStr THEN EncodeUtf8(content.v)
               ELSE [ok |-> TRUE, bytes |-> content.v]
    IN  IF enc.ok THEN [exc |-> "none", hash |-> [isNone |-> FALSE, v |-> enc.bytes]]
        ELSE [exc |-> "UnicodeEncodeError", hash |-> NoHash]

GenerationResult(job_id, status, prompt, seed, parameters, model_version) ==
    [job_id |-> job_id, status |-> status, content |-> NoContent,
     content_hash |-> NoHash, model_version |-> Given(model_version),
     prompt |-> Given(prompt),
     seed |-> seed, parameters |-> parameters, timestamp |-> NoneInt,
     error |-> "None"]

\* GenerationResult.is_complete
is_complete(r) ==
    /\ r.status = "COMPLETED"
    /\ ~r.content.isNone
    /\ ~r.content_hash.isNone
    /\ ~r.model_version.isNone
    /\ ~r.prompt.isNone
    /\ ~r.seed.isNone
    /\ ~r.parameters.isNone
    /\ ~r.timestamp.isNone

\* A result that stays COMPLETED when hashing the content raises.
complete_keeping_status(result, content, now) ==
    LET h == _compute_content_hash(content)
    IN  [result EXCEPT !.status = "COMPLETED", !.content = content,
                       !.content_hash = h.hash,
                       !.timestamp = IF h.exc = "none" THEN SomeInt(now) ELSE @,
                       !.error = IF h.exc = "none" THEN @ ELSE h.exc]

\* generate(), from the return of wait_for to the end, with no await in
\* between: status, content, content_hash and timestamp are assigned in
\* this order, and an exception of the hash leaves the result FAILED.
complete(result, content, now) ==
    LET h == _compute_content_hash(content)
    IN  IF h.exc = "none"
        THEN [result EXCEPT !.status = "COMPLETED", !.content = content,
                            !.content_hash = h.hash, !.timestamp = SomeInt(now)]
        ELSE [result EXCEPT !.status = "FAILED", !.content = content,
                            !.error = h.exc]

\* A generation that always draws its seed from the clock.
seed_from_clock(request_seed, clock_seed) == SomeInt(clock_seed)

\* request.seed if request.seed is not None else self._generate_seed()
seed_of(request_seed, clock_seed) ==
    IF ~request_seed.isNone THEN request_seed ELSE SomeInt(clock_seed)

GenInit ==
    /\ gen_jobs = [s \in Services |-> <<>>]
    /\ genCalls = <<>>
    /\ genRead = [found |-> FALSE, result |-> <<>>]

\* A registration that forgets the other jobs of the instance.
SetOnlyJob(s, job_id, result) ==
    gen_jobs' = [gen_jobs EXCEPT ![s] = [j \in {job_id} |-> result]]

SetJob(s, job_id, result) ==
    gen_jobs' = [gen_jobs EXCEPT
                    ![s] = [j \in (DOMAIN gen_jobs[s]) \cup {job_id} |->
                               IF j = job_id THEN result ELSE gen_jobs[s][j]]]

\* generate() up to its first await, in wait_for: the job is registered
\* IN_PROGRESS and the generator is handed to a task of its own.
GenerateStart(s, request, clock_seed) ==
    LET job_id == Len(genCalls) + 1
        result == GenerationResult(job_id, "IN_PROGRESS", request.prompt,
                                   seed_of(request.seed, clock_seed),
                                   request.parameters,
                                   _get_model_version(request.content_type))
    IN  /\ Len(genCalls) < MaxCalls
        /\ SetJob(s, job_id, result)
        /\ genCalls' = Append(genCalls,
               [service |-> s, request |-> request, pc |-> "awaiting",
                result |-> result])
        /\ UNCHANGED genRead

\* generate() from the end of the generator to its return; the generator
\* reads its parameters first, which raises AttributeError when parameters
\* is None
GenerateFinish(job_id, now) ==
    LET call == genCalls[job_id]
        request == call.request
        result == gen_jobs[call.service][job_id]
        seed == result.seed.n
        made == CASE request.content_type = IMAGE ->
                        _generate_image(request.prompt, seed, request.parameters.d)
                  [] request.content_type = TEXT ->
                        _generate_text(request.prompt, seed, request.parameters.d)
                  [] request.content_type = MUSIC ->
                        _generate_music(request.prompt, seed, request.parameters.d)
        final == IF request.parameters.isNone
                 THEN [result EXCEPT !.status = "FAILED", !.error = "AttributeError"]
                 ELSE IF made.exc = "none" THEN complete(result, made.content, now)
                 ELSE [result EXCEPT !.status = "FAILED", !.error = made.exc]
    IN  /\ call.pc = "awaiting"
        /\ SetJob(call.service, job_id, final)
        /\ genCalls' = [genCalls EXCEPT ![job_id].pc = "returned",
                                        ![job_id].result = final]
        /\ UNCHANGED genRead

\* A timer that wait_for leaves armed: it fires whether or not generate()
\* has returned.
GenerateTimeoutAnyTime(job_id) ==
    LET call == genCalls[job_id]
        result == gen_jobs[call.service][job_id]
        final == [result EXCEPT !.status = "TIMEOUT", !.error = "timed out"]
    IN  /\ ~call.request.parameters.isNone
        /\ SetJob(call.service, job_id, final)
        /\ genCalls' = [genCalls EXCEPT ![job_id].pc = "returned",
                                        ![job_id].result = final]
        /\ UNCHANGED genRead

\* wait_for cancels the generator, which is suspended in its sleep:
\* asyncio.TimeoutError
GenerateTimeout(job_id) ==
    LET call == genCalls[job_id]
        result == gen_jobs[call.service][job_id]
        final == [result EXCEPT !.status = "TIMEOUT", !.error = "timed out"]
    IN  /\ call.pc = "awaiting"
        /\ ~call.request.parameters.isNone
        /\ SetJob(call.service, job_id, final)
        /\ genCalls' = [genCalls EXCEPT ![job_id].pc = "returned",
                                        ![job_id].result = final]
        /\ UNCHANGED genRead

\* get_job: self._jobs.get(job_id)
get_job(s, job_id) ==
    IF job_id \in DOMAIN gen_jobs[s]
    THEN [found |-> TRUE, result |-> gen_jobs[s][job_id]]
    ELSE [found |-> FALSE, result |-> <<>>]

GenerateStartStep ==
    \E s \in Services, request \in GenerationRequests, clock_seed \in ClockSeeds :
        GenerateStart(s, request, clock_seed)

GenerateFinishStep ==
    \E job_id \in 1..Len(genCalls), now \in Times : GenerateFinish(job_id, now)

GenerateTimeoutStep == \E job_id \in 1..Len(genCalls) : GenerateTimeout(job_id)

GetJobStep ==
    \E s \in Services, job_id \in 1..MaxCalls :
        /\ genRead' = get_job(s, job_id)
        /\ UNCHANGED <<gen_jobs, genCalls>>

GenNext ==
    \/ GenerateStartStep
    \/ GenerateFinishStep
    \/ GenerateTimeoutStep
    \/ GetJobStep

(***************************************************************************)
(* Lookup and validation handlers (api.py)                                 *)
(***************************************************************************)
MaxId == 1

\* identifiers the stores can hold, and those a request can name
Ids == 1..MaxId
RequestIds == 1..(MaxId + 1)

\* get_generation_service(): the one instance the handlers use
ApiService == 1

\* the request POST /api/generate is called with
ApiGenerationRequest ==
    [prompt |-> Prompt_a, content_type |-> TEXT, seed |-> SomeInt(2),
     parameters |-> Parameters(EmptyDict)]

\* the NFT the blockchain listener indexes
ApiNft == [token_id |-> 1, content_type |-> IMAGE, creator_address |-> Addr_ab]

ExecutionModes == {"SINGLE", "ALL", "CUSTOM", "CHAIN"}
AgentTypes == {"IMAGE", "TEXT", "MUSIC", "DNA", "EMOTION", "SEARCH", "ANALYTICS"}

NoList == [isNone |-> TRUE, items |-> <<>>]
SomeList(items) == [isNone |-> FALSE, items |-> items]

\* EmotionAnalyzeRequest bodies; "AA==" is base64, "A" is not
EmotionRequests ==
    [text : {Absent, Given(<<>>), Given(<<97>>)},
     image_base64 : {Absent, Given(<<65>>), Given(<<65, 65, 61, 61>>)},
     audio_base64 : {Absent, Given(<<65, 65, 61, 61>>)}]

\* AgentExecuteRequest bodies, the mode already in upper case
AgentRequests ==
    [agent_types : {NoList, SomeList(<<>>), SomeList(<<"IMAGE">>),
                    SomeList(<<"IMAGE", "TEXT">>), SomeList(<<"BOGUS">>)},
     mode : ExecutionModes \cup {"BOGUS"}]

ApiInit ==
    /\ dna_registry = {}
    /\ emotion_profiles = {}
    /\ executions = {}
    /\ presets = {}
    /\ apiResp = 0

Answer(status) == apiResp' = status

\* GET /api/generate/{job_id}
get_generation_status(job_id) ==
    /\ Answer(IF ~get_job(ApiService, job_id).found THEN 404 ELSE 200)
    /\ UNCHANGED <<dna_registry, emotion_profiles, executions, presets>>

\* GET /api/generate/{job_id}/content
get_generated_content(job_id) ==
    LET job == get_job(ApiService, job_id)
    IN  /\ Answer(IF ~job.found THEN 404
                  ELSE IF job.result.status # "COMPLETED" THEN 400
                  ELSE IF job.result.content.isNone THEN 500
                  ELSE 200)
        /\ UNCHANGED <<dna_registry, emotion_profiles, executions, presets>>

\* GET /api/nfts/{token_id}
get_nft(token_id) ==
    /\ Answer(IF IndexOfToken(token_id) = 0 THEN 404 ELSE 200)
    /\ UNCHANGED <<dna_registry, emotion_profiles, executions, presets>>

\* GET /api/nfts/{token_id}/provenance
get_nft_provenance(token_id) ==
    /\ Answer(IF IndexOfToken(token_id) = 0 THEN 404 ELSE 200)
    /\ UNCHANGED <<dna_registry, emotion_profiles, executions, presets>>

\* POST /api/dna/generate: the DNA is registered under the hash of its genes
generate_dna(dna_hash) ==
    /\ dna_registry' = dna_registry \cup {dna_hash}
    /\ Answer(200)
    /\ UNCHANGED <<emotion_profiles, executions, presets>>

\* POST /api/dna/breed: DNAEngine.breed_dna raises ValueError for a parent
\* that is not registered, which the handler answers with 404.
breed_dna(parent1_hash, parent2_hash, child_hash) ==
    LET missing == parent1_hash \notin dna_registry \/ parent2_hash \notin dna_registry
    IN  /\ dna_registry' = IF missing THEN dna_registry
                           ELSE dna_registry \cup {child_hash}
        /\ Answer(IF missing THEN 404 ELSE 200)
        /\ UNCHANGED <<emotion_profiles, executions, presets>>

\* POST /api/dna/evolve
evolve_dna(dna_hash, evolved_hash) ==
    LET missing == dna_hash \notin dna_registry
    IN  /\ dna_registry' = IF missing THEN dna_registry
                           ELSE dna_registry \cup {evolved_hash}
        /\ Answer(IF missing THEN 404 ELSE 200)
        /\ UNCHANGED <<emotion_profiles, executions, presets>>

\* GET /api/dna/{dna_hash}
get_dna(dna_hash) ==
    /\ Answer(IF dna_hash \notin dna_registry THEN 404 ELSE 200)
    /\ UNCHANGED <<dna_registry, emotion_profiles, executions, presets>>

\* DNAEngine.calculate_compatibility: 0.0 when one of the two is not
\* registered, else a score from 0 to 100
calculate_compatibility(dna_hash1, dna_hash2) ==
    IF dna_hash1 \notin dna_registry \/ dna_hash2 \notin dna_registry
    THEN {0}
    ELSE 0..100

\* GET /api/dna/compatibility/{hash1}/{hash2}: the score and a
\* recommendation, with no exception raised on any path
check_compatibility(hash1, hash2) ==
    /\ \E score \in calculate_compatibility(hash1, hash2) :
          Answer(200)
    /\ UNCHANGED <<dna_registry, emotion_profiles, executions, presets>>

\* POST /api/emotion/profile
create_emotion_profile(content_id) ==
    /\ emotion_profiles' = emotion_profiles \cup {content_id}
    /\ Answer(200)
    /\ UNCHANGED <<dna_registry, executions, presets>>

\* GET /api/emotion/profile/{content_id}
get_emotion_profile(content_id) ==
    /\ Answer(IF content_id \notin emotion_profiles THEN 404 ELSE 200)
    /\ UNCHANGED <<dna_registry, emotion_profiles, executions, presets>>

\* raise HTTPException(status) inside a try block whose last handler is
\* "except Exception": HTTPException is an Exception, so the handler
\* catches it and raises HTTPException(500) in its place.
RaisedInTry(status) == 500

\* POST /api/emotion/analyze
analyze_emotion(request) ==
    LET truthy(o) == ~o.isNone /\ o.s # <<>>
        status ==
            IF truthy(request.text) THEN 200
            ELSE IF truthy(request.image_base64)
                 THEN (IF b64decode(request.image_base64.s).ok THEN 200 ELSE 500)
            ELSE IF truthy(request.audio_base64)
                 THEN (IF b64decode(request.audio_base64.s).ok THEN 200 ELSE 500)
            ELSE RaisedInTry(400)
    IN  /\ Answer(status)
        /\ UNCHANGED <<dna_registry, emotion_profiles, executions, presets>>

\* POST /api/agents/execute: ExecutionMode[...] and AgentType[...] raise
\* KeyError for an unknown name, answered with 400; an execution that ran
\* is stored under a fresh id.
execute_agents(request, execution_id) ==
    LET a == request.agent_types
        given == ~a.isNone /\ a.items # <<>>
        known == \A i \in 1..Len(a.items) : a.items[i] \in AgentTypes
        status ==
            IF request.mode \notin ExecutionModes THEN 400
            ELSE IF request.mode = "ALL" THEN 200
            ELSE IF given THEN (IF known THEN 200 ELSE 400)
            ELSE RaisedInTry(400)
    IN  /\ execution_id \notin executions
        /\ executions' = IF status = 200 THEN executions \cup {execution_id}
                         ELSE executions
        /\ Answer(status)
        /\ UNCHANGED <<dna_registry, emotion_profiles, presets>>

\* DELETE /api/agents/execution/{execution_id}
cancel_execution(execution_id) ==
    /\ Answer(IF execution_id \notin executions THEN 404 ELSE 200)
    /\ UNCHANGED <<dna_registry, emotion_profiles, executions, presets>>

\* GET /api/agents/execution/{execution_id}
get_execution_status(execution_id) ==
    /\ Answer(IF execution_id \notin executions THEN 404 ELSE 200)
    /\ UNCHANGED <<dna_registry, emotion_profiles, executions, presets>>

\* POST /api/agents/presets: saved under a fresh id
create_preset(preset_id) ==
    /\ preset_id \notin presets
    /\ presets' = presets \cup {preset_id}
    /\ Answer(200)
    /\ UNCHANGED <<dna_registry, emotion_profiles, executions>>

\* GET /api/agents/presets/{preset_id}
get_preset(preset_id) ==
    /\ Answer(IF preset_id \notin presets THEN 404 ELSE 200)
    /\ UNCHANGED <<dna_registry, emotion_profiles, executions, presets>>

\* DELETE /api/agents/presets/{preset_id}
delete_preset(preset_id) ==
    /\ presets' = presets \ {preset_id}
    /\ Answer(IF preset_id \notin presets THEN 404 ELSE 200)
    /\ UNCHANGED <<dna_registry, emotion_profiles, executions>>

\* The stores the handlers above read are filled by POST /api/generate, the
\* index-nft call and POST /api/upload.
OtherStoresUnchanged == UNCHANGED <<ipfsVars, uploadVars, nftVars, genVars>>

ApiGenerateStep ==
    /\ GenerateStart(ApiService, ApiGenerationRequest, 3)
    /\ UNCHANGED <<ipfsVars, uploadVars, nftVars, apiVars>>

ApiGenerateFinishStep ==
    /\ GenerateFinishStep
    /\ UNCHANGED <<ipfsVars, uploadVars, nftVars, apiVars>>

ApiIndexNftStep ==
    /\ index_nft(ApiNft)
    /\ UNCHANGED <<ipfsVars, uploadVars, genVars, apiVars>>

ApiRemoveNftStep ==
    /\ remove_nft_index(ApiNft.token_id)
    /\ UNCHANGED <<ipfsVars, uploadVars, genVars, apiVars>>

ApiStoreContentStep ==
    /\ api_upload_content(reqContent, TRUE)
    /\ UNCHANGED <<nftVars, genVars, apiVars>>

ApiGetContentStep ==
    /\ ApiGetStep
    /\ UNCHANGED <<nftVars, genVars, apiVars>>

GetGenerationStatusStep ==
    (\E job_id \in 1..MaxCalls : get_generation_status(job_id)) /\ OtherStoresUnchanged

GetGeneratedContentStep ==
    (\E job_id \in 1..MaxCalls : get_generated_content(job_id)) /\ OtherStoresUnchanged

GetNftStep == (\E token_id \in 1..MaxTokenId : get_nft(token_id)) /\ OtherStoresUnchanged

GetNftProvenanceStep ==
    (\E token_id \in 1..MaxTokenId : get_nft_provenance(token_id)) /\ OtherStoresUnchanged

GenerateDnaStep == (\E h \in Ids : generate_dna(h)) /\ OtherStoresUnchanged

BreedDnaStep ==
    (\E p1, p2 \in RequestIds, child \in Ids : breed_dna(p1, p2, child))
    /\ OtherStoresUnchanged

EvolveDnaStep ==
    (\E h \in RequestIds, evolved \in Ids : evolve_dna(h, evolved)) /\ OtherStoresUnchanged

GetDnaStep == (\E h \in RequestIds : get_dna(h)) /\ OtherStoresUnchanged

CheckCompatibilityStep ==
    (\E h1, h2 \in RequestIds : check_compatibility(h1, h2)) /\ OtherStoresUnchanged

CreateEmotionProfileStep ==
    (\E c \in Ids : create_emotion_profile(c)) /\ OtherStoresUnchanged

GetEmotionProfileStep ==
    (\E c \in RequestIds : get_emotion_profile(c)) /\ OtherStoresUnchanged

AnalyzeEmotionStep ==
    (\E request \in EmotionRequests : analyze_emotion(request)) /\ OtherStoresUnchanged

ExecuteAgentsStep ==
    (\E request \in AgentRequests, x \in Ids : execute_agents(request, x))
    /\ OtherStoresUnchanged

CancelExecutionStep ==
    (\E x \in RequestIds : cancel_execution(x)) /\ OtherStoresUnchanged

GetExecutionStatusStep ==
    (\E x \in RequestIds : get_execution_status(x)) /\ OtherStoresUnchanged

CreatePresetStep == (\E p \in Ids : create_preset(p)) /\ OtherStoresUnchanged

GetPresetStep == (\E p \in RequestIds : get_preset(p)) /\ OtherStoresUnchanged

DeletePresetStep == (\E p \in RequestIds : delete_preset(p)) /\ OtherStoresUnchanged

ApiNext ==
    \/ ApiGenerateStep
    \/ ApiGenerateFinishStep
    \/ ApiIndexNftStep
    \/ ApiRemoveNftStep
    \/ ApiStoreContentStep
    \/ ApiGetContentStep
    \/ GetGenerationStatusStep
    \/ GetGeneratedContentStep
    \/ GetNftStep
    \/ GetNftProvenanceStep
    \/ GenerateDnaStep
    \/ BreedDnaStep
    \/ EvolveDnaStep
    \/ GetDnaStep
    \/ CheckCompatibilityStep
    \/ CreateEmotionProfileStep
    \/ GetEmotionProfileStep
    \/ AnalyzeEmotionStep
    \/ ExecuteAgentsStep
    \/ CancelExecutionStep
    \/ GetExecutionStatusStep
    \/ CreatePresetStep
    \/ GetPresetStep
    \/ DeletePresetStep

(***************************************************************************)
(* Creator address checks (models.py, services/generation.py, api.py)      *)
(***************************************************************************)
IsHexDigit(c) == c \in 48..57 \/ c \in 65..70 \/ c \in 97..102

\* the Field pattern "^0x[a-fA-F0-9]{40}$" of GenerateRequest.creator_address
MatchesAddressPattern(a) ==
    /\ Len(a) = 42
    /\ a[1] = 48
    /\ a[2] = 120
    /\ \A i \in 3..42 : IsHexDigit(a[i])

\* GenerateRequest: the prompt of 1 to 10000 characters, the address pattern
GenerateRequestValid(prompt, creator_address) ==
    /\ Len(prompt) >= 1
    /\ Len(prompt) <= 10000
    /\ MatchesAddressPattern(creator_address)

\* GenerationRequest.timeout when the caller gives none
DEFAULT_TIMEOUT == 60

\* A validation that lets a timeout of 0 seconds through.
post_init_zero_timeout(prompt, creator_address, timeout) ==
    IF prompt = <<>> \/ \A i \in 1..Len(prompt) : IsSpace(prompt[i])
    THEN "ValueError"
    ELSE IF creator_address = <<>>
            \/ Len(creator_address) < 2
            \/ SubSeq(creator_address, 1, 2) # <<48, 120>>
    THEN "ValueError"
    ELSE IF timeout < 0 \/ timeout > 300 THEN "ValueError"
    ELSE "none"

\* GenerationRequest.__post_init__: the exception it raises, "none" when
\* the object is constructed
__post_init__(prompt, creator_address, timeout) ==
    IF prompt = <<>> \/ \A i \in 1..Len(prompt) : IsSpace(prompt[i])
    THEN "ValueError"
    ELSE IF creator_address = <<>>
            \/ Len(creator_address) < 2
            \/ SubSeq(creator_address, 1, 2) # <<48, 120>>
    THEN "ValueError"
    ELSE IF timeout <= 0 \/ timeout > 300 THEN "ValueError"
    ELSE "none"

\* creator addresses: well formed in lower and in mixed case, 40 characters
\* that are not hexadecimal, too short, the bare prefix, empty, without the
\* prefix, with the prefix 0X, and one character too long
CreatorAddresses ==
    {Address.s, <<48, 120>> \o [i \in 1..40 |-> IF i % 2 = 0 THEN 65 ELSE 49],
     NonHexAddress.s, ShortAddress.s, <<48, 120>>, <<>>,
     [i \in 1..42 |-> 97], <<48, 88>> \o [i \in 1..40 |-> 97],
     <<48, 120>> \o [i \in 1..41 |-> 97]}

AddrPrompts == {Prompt_a, <<32>>, <<>>}
AddrTimeouts == {-1, 0, 1, DEFAULT_TIMEOUT, 300, 301}

\* timeout is the timeout of the request constructed, 0 where none is
NoAddrCall ==
    [op |-> "none", address |-> <<>>, exc |-> "none", status |-> 0, job |-> 0,
     timeout |-> 0]

AddrInit == addrCall = NoAddrCall

\* Metadata.validate() of a record that is valid but for its creator_address
ValidateAddressStep ==
    \E a \in CreatorAddresses :
        /\ addrCall' = [op |-> "validate", address |-> a,
                        exc |-> validate([BaseMetadata EXCEPT
                                             !.creator_address = PyStr(a)]),
                        status |-> 0, job |-> 0, timeout |-> 0]
        /\ UNCHANGED genVars

\* GenerationRequest(prompt=..., creator_address=..., timeout=...)
NewGenerationRequestStep ==
    \E a \in CreatorAddresses, prompt \in AddrPrompts, timeout \in AddrTimeouts :
        /\ addrCall' = [op |-> "GenerationRequest", address |-> a,
                        exc |-> __post_init__(prompt, a, timeout),
                        status |-> 0, job |-> 0, timeout |-> timeout]
        /\ UNCHANGED genVars

\* POST /api/generate up to the await of service.generate: 422 when the body
\* does not validate, 400 when GenerationRequest raises ValueError
PostGenerateStep ==
    \E a \in CreatorAddresses, prompt \in AddrPrompts, clock_seed \in ClockSeeds :
        LET request == [prompt |-> prompt, content_type |-> TEXT, seed |-> NoneInt,
                        parameters |-> Parameters(EmptyDict)]
        IN  /\ addrCall.status = 0 => addrCall.job = 0
            /\ IF ~GenerateRequestValid(prompt, a)
               THEN /\ addrCall' = [op |-> "POST", address |-> a,
                                    exc |-> "RequestValidationError",
                                    status |-> 422, job |-> 0, timeout |-> 0]
                    /\ UNCHANGED genVars
               ELSE IF __post_init__(prompt, a, DEFAULT_TIMEOUT) # "none"
               THEN /\ addrCall' = [op |-> "POST", address |-> a,
                                    exc |-> "ValueError", status |-> 400, job |-> 0,
                                    timeout |-> DEFAULT_TIMEOUT]
                    /\ UNCHANGED genVars
               ELSE /\ GenerateStart(ApiService, request, clock_seed)
                    /\ addrCall' = [op |-> "POST", address |-> a, exc |-> "none",
                                    status |-> 0, job |-> Len(genCalls) + 1,
                                    timeout |-> DEFAULT_TIMEOUT]

\* POST /api/generate from the return of service.generate: 200, whatever
\* the status of the result
PostGenerateReturnStep ==
    /\ addrCall.op = "POST"
    /\ addrCall.status = 0
    /\ addrCall.job # 0
    /\ \/ \E now \in Times : GenerateFinish(addrCall.job, now)
       \/ GenerateTimeout(addrCall.job)
    /\ addrCall' = [addrCall EXCEPT !.status = 200]

AddrNext ==
    \/ ValidateAddressStep
    \/ NewGenerationRequestStep
    \/ PostGenerateStep
    \/ PostGenerateReturnStep

(***************************************************************************)
(* AgentController (services/agent_controller.py)                          *)
(***************************************************************************)
MaxExecutions == 2
MaxCancels == 1

ALL_AGENTS == <<"IMAGE", "TEXT", "MUSIC", "DNA", "EMOTION", "SEARCH", "ANALYTICS">>

\* the input_data dictionaries of the callers
AgentInputs == {EmptyDict, [prompt |-> "p"], [prompt |-> "p", status |-> "mine"]}

\* The calls: the method, the agent types in the order given, the caller's
\* input_data and the progress_callback: none, or one that raises.
AgentCalls ==
    {[method |-> "execute_all", types |-> ALL_AGENTS, input_data |-> [prompt |-> "p"],
      callback |-> "none"]}
    \cup [method : {"execute_custom"},
          types : {<<>>, <<"TEXT", "IMAGE">>, <<"IMAGE", "IMAGE">>},
          input_data : {[prompt |-> "p"]},
          callback : {"none", "raising"}]
    \cup [method : {"execute_chain"},
          types : {<<>>, <<"IMAGE", "TEXT">>, <<"TEXT", "TEXT">>, <<"DNA", "MUSIC", "TEXT">>},
          input_data : AgentInputs,
          callback : {"none", "raising"}]

\* The calls made while an earlier execution is registered: a chain and a
\* parallel execution that both use the image agent.
LaterCalls ==
    {[method |-> "execute_chain", types |-> <<"IMAGE", "TEXT">>,
      input_data |-> [prompt |-> "p"], callback |-> "none"],
     [method |-> "execute_custom", types |-> <<"TEXT", "IMAGE">>,
      input_data |-> [prompt |-> "p"], callback |-> "none"]}

MayStart(call) ==
    /\ Len(agent_executions) < MaxExecutions
    /\ Len(agent_executions) > 0 => call \in LaterCalls

\* dict.update
DictUpdate(d, other) == other @@ d

\* What agent.execute returns when it runs to its end; the values that the
\* code draws from uuid4 are tokens.
AgentResult(agent_type, input_data) ==
    CASE agent_type = "IMAGE" ->
            [status |-> "success", content_type |-> "IMAGE",
             prompt |-> DictGet(input_data, "prompt", ""),
             image_url |-> "generated_image.png", model |-> "stable-diffusion-xl"]
      [] agent_type = "TEXT" ->
            [status |-> "success", content_type |-> "TEXT",
             prompt |-> DictGet(input_data, "prompt", ""),
             text |-> "Generated description for: " \o DictGet(input_data, "prompt", ""),
             model |-> "gpt-4-turbo"]
      [] agent_type = "MUSIC" ->
            [status |-> "success", content_type |-> "MUSIC",
             prompt |-> DictGet(input_data, "prompt", "ambient background"),
             audio_url |-> "generated_music.mp3", duration |-> "30",
             model |-> "musicgen-large"]
      [] agent_type = "DNA" ->
            [status |-> "success",
             original_dna |-> DictGet(input_data, "dna_hash", ""),
             evolved_dna |-> "evolved", mutations |-> "color_shift,complexity_increase",
             rarity_change |-> "+5"]
      [] agent_type = "EMOTION" ->
            [status |-> "success", detected_emotion |-> "happy", confidence |-> "0.85",
             adaptation |-> "color_shift,brightness,animation_speed"]
      [] agent_type = "SEARCH" ->
            [status |-> "success", query |-> DictGet(input_data, "query", ""),
             results_count |-> "42", top_results |-> "transaction,address,nft"]
      [] agent_type = "ANALYTICS" ->
            [status |-> "success", address |-> DictGet(input_data, "address", ""),
             total_value |-> "5.25 ETH", nft_count |-> "12", roi |-> "+15.5%",
             top_performing |-> "Living Art #42"]

\* ImageGenerationAgent.execute when it finds self._cancelled set
CANCELLED_RESULT == [status |-> "cancelled"]

\* AgentProgress(agent_type, status, started_at)
AgentProgress(status, started) ==
    [status |-> status, started_at |-> started, completed_at |-> FALSE,
     error |-> FALSE, result |-> EmptyDict]

\* ExecutionResult(execution_id, mode, agents, started_at)
ExecutionResult(mode, types, status, started) ==
    [mode |-> mode,
     agents |-> [t \in {types[i] : i \in 1..Len(types)} |-> AgentProgress(status, started)],
     completed_at |-> FALSE, total_time_ms |-> FALSE, success |-> TRUE]

AgentInit ==
    /\ agent_cancelled = {}
    /\ agent_executions = <<>>
    /\ agentRuns = <<>>
    /\ agentCancels = <<>>

\* progress.status = COMPLETED ... progress.completed_at = now
ProgressCompleted(progress, agent_result) ==
    [progress EXCEPT !.status = "COMPLETED", !.result = agent_result,
                     !.completed_at = TRUE]

\* except Exception: progress.status = FAILED, progress.error = str(e)
ProgressFailed(progress) == [progress EXCEPT !.status = "FAILED", !.error = TRUE]

\* result.completed_at = now; result.total_time_ms = ...
Returned(execution) == [execution EXCEPT !.completed_at = TRUE, !.total_time_ms = TRUE]

NewRun(call) ==
    [method |-> call.method, types |-> call.types, callback |-> call.callback,
     original |-> call.input_data, input_data |-> call.input_data,
     current_data |-> call.input_data, pos |-> 0,
     tasks |-> [i \in 1..Len(call.types) |-> "created"],
     received |-> [i \in 1..Len(call.types) |-> EmptyDict],
     results |-> [i \in 1..Len(call.types) |-> EmptyDict],
     outcome |-> [i \in 1..Len(call.types) |-> "none"],
     pc |-> "awaiting"]

\* One step of the coroutine agent.execute(input_data, update_progress) of
\* the task at position i, and what the caller's try/except makes of it.
\*   "created"  -> the first callback, then the first sleep
\*   "sleeping" -> ImageGenerationAgent looks at self._cancelled; the other
\*                 agents run to their return
\*   "checked"  -> ImageGenerationAgent runs to its return
\* The answer tells how execute ended ("none": it is suspended in a sleep).
AgentStep(run, i, cancelled) ==
    LET agent_type == run.types[i]
        at == run.tasks[i]
        input == IF run.method = "execute_chain" THEN run.current_data ELSE run.input_data
    IN  IF at = "created" THEN
            IF run.callback = "raising"
            THEN [ended |-> "raised", result |-> EmptyDict,
                  run |-> [run EXCEPT !.tasks[i] = "done", !.received[i] = input]]
            ELSE [ended |-> "none", result |-> EmptyDict,
                  run |-> [run EXCEPT !.tasks[i] = "sleeping", !.received[i] = input]]
        ELSE IF at = "sleeping" /\ agent_type = "IMAGE" THEN
            IF "IMAGE" \in cancelled
            THEN [ended |-> "returned", result |-> CANCELLED_RESULT,
                  run |-> [run EXCEPT !.tasks[i] = "done", !.results[i] = CANCELLED_RESULT]]
            ELSE [ended |-> "none", result |-> EmptyDict,
                  run |-> [run EXCEPT !.tasks[i] = "checked"]]
        ELSE LET agent_result == AgentResult(agent_type, run.received[i])
             IN  [ended |-> "returned", result |-> agent_result,
                  run |-> [run EXCEPT !.tasks[i] = "done", !.results[i] = agent_result]]

\* run_agent of execute_custom after agent.execute has ended
AfterExecute(execution, agent_type, step) ==
    IF step.ended = "returned"
    THEN [execution EXCEPT !.agents[agent_type] = ProgressCompleted(@, step.result)]
    ELSE IF step.ended = "raised"
    THEN [execution EXCEPT !.agents[agent_type] = ProgressFailed(@), !.success = FALSE]
    ELSE execution

Outcome(run, i, step) ==
    IF step.ended = "returned" THEN [run EXCEPT !.outcome[i] = "completed"]
    ELSE IF step.ended = "raised" THEN [run EXCEPT !.outcome[i] = "failed"]
    ELSE run

\* execute_custom and execute_all up to the await of asyncio.gather: the
\* result is stored with every agent RUNNING and one task per position is
\* created.
execute_custom(call) ==
    /\ call.method \in {"execute_custom", "execute_all"}
    /\ MayStart(call)
    /\ agent_executions' =
           Append(agent_executions, ExecutionResult("CUSTOM", call.types, "RUNNING", TRUE))
    /\ agentRuns' = Append(agentRuns, NewRun(call))
    /\ UNCHANGED <<agent_cancelled, agentCancels>>

\* The event loop runs the task at position i of a parallel execution: the
\* tasks take their first step in the order gather created them, and the
\* timers of their sleeps fire in later iterations of the loop.
run_agent(execution_id, i) ==
    LET run == agentRuns[execution_id]
        step == AgentStep(run, i, agent_cancelled)
    IN  /\ run.method \in {"execute_custom", "execute_all"}
        /\ run.pc = "awaiting"
        /\ run.tasks[i] # "done"
        /\ \A j \in 1..(i - 1) : run.tasks[j] # "created"
        /\ run.tasks[i] # "created" =>
              \A j \in 1..Len(run.types) : run.tasks[j] # "created"
        /\ agentRuns' = [agentRuns EXCEPT ![execution_id] = Outcome(step.run, i, step)]
        /\ agent_executions' =
               [agent_executions EXCEPT
                    ![execution_id] = AfterExecute(@, run.types[i], step)]
        /\ UNCHANGED <<agent_cancelled, agentCancels>>

\* execute_custom that returns without waiting for its tasks
execute_custom_return_early(execution_id) ==
    LET run == agentRuns[execution_id]
    IN  /\ run.method \in {"execute_custom", "execute_all"}
        /\ run.pc = "awaiting"
        /\ agentRuns' = [agentRuns EXCEPT ![execution_id].pc = "returned"]
        /\ agent_executions' = [agent_executions EXCEPT ![execution_id] = Returned(@)]
        /\ UNCHANGED <<agent_cancelled, agentCancels>>

\* gather is done: execute_custom sets completed_at and total_time_ms and
\* returns the result.
execute_custom_return(execution_id) ==
    LET run == agentRuns[execution_id]
    IN  /\ run.method \in {"execute_custom", "execute_all"}
        /\ run.pc = "awaiting"
        /\ \A i \in 1..Len(run.types) : run.tasks[i] = "done"
        /\ agentRuns' = [agentRuns EXCEPT ![execution_id].pc = "returned"]
        /\ agent_executions' = [agent_executions EXCEPT ![execution_id] = Returned(@)]
        /\ UNCHANGED <<agent_cancelled, agentCancels>>

\* current_data.update(agent_result); the caller's input_data is another
\* dictionary since current_data = input_data.copy()
chain_update_in_place(run, agent_result) ==
    [run EXCEPT !.current_data = DictUpdate(@, agent_result),
                !.input_data = DictUpdate(@, agent_result)]

chain_update(run, agent_result) ==
    [run EXCEPT !.current_data = DictUpdate(@, agent_result)]

\* The loop of execute_chain from position k up to its next await: the
\* agent at k is set RUNNING and its coroutine runs to its first sleep, or
\* the callback raises and the chain breaks, or the chain is at its end
\* and the result is returned.
ChainFrom(execution, run, k, cancelled) ==
    IF k > Len(run.types)
    THEN [execution |-> Returned(execution), run |-> [run EXCEPT !.pc = "returned"]]
    ELSE LET agent_type == run.types[k]
             running == [execution EXCEPT !.agents[agent_type].status = "RUNNING",
                                          !.agents[agent_type].started_at = TRUE]
             step == AgentStep([run EXCEPT !.pos = k], k, cancelled)
         IN  IF step.ended = "raised"
             THEN [execution |-> Returned(AfterExecute(running, agent_type, step)),
                   run |-> [Outcome(step.run, k, step) EXCEPT !.pc = "returned"]]
             ELSE [execution |-> running, run |-> step.run]

\* execute_chain up to its first await
execute_chain(call) ==
    LET next == ChainFrom(ExecutionResult("CHAIN", call.types, "READY", FALSE),
                          NewRun(call), 1, agent_cancelled)
    IN  /\ call.method = "execute_chain"
        /\ MayStart(call)
        /\ agent_executions' = Append(agent_executions, next.execution)
        /\ agentRuns' = Append(agentRuns, next.run)
        /\ UNCHANGED <<agent_cancelled, agentCancels>>

\* The agent the chain awaits wakes up: it sleeps again, or it returns and
\* the loop goes on with the next position.
execute_chain_resume(execution_id) ==
    LET run == agentRuns[execution_id]
        i == run.pos
        step == AgentStep(run, i, agent_cancelled)
        next == IF step.ended = "none"
                THEN [execution |-> agent_executions[execution_id], run |-> step.run]
                ELSE ChainFrom(AfterExecute(agent_executions[execution_id],
                                            run.types[i], step),
                               Outcome(chain_update(step.run, step.result), i, step),
                               i + 1, agent_cancelled)
    IN  /\ run.method = "execute_chain"
        /\ run.pc = "awaiting"
        /\ agentRuns' = [agentRuns EXCEPT ![execution_id] = next.run]
        /\ agent_executions' = [agent_executions EXCEPT ![execution_id] = next.execution]
        /\ UNCHANGED <<agent_cancelled, agentCancels>>

\* AgentController.cancel_execution and DELETE /api/agents/execution/{id}
controller_cancel_execution(execution_id) ==
    LET known == execution_id \in DOMAIN agent_executions
        running == IF known
                   THEN {t \in DOMAIN agent_executions[execution_id].agents :
                            agent_executions[execution_id].agents[t].status = "RUNNING"}
                   ELSE {}
    IN  /\ Len(agentCancels) < MaxCancels
        /\ agent_cancelled' = agent_cancelled \cup running
        /\ agent_executions' =
               IF known
               THEN [agent_executions EXCEPT ![execution_id].agents =
                        [t \in DOMAIN @ |->
                            IF t \in running THEN [@[t] EXCEPT !.status = "CANCELLED"]
                            ELSE @[t]]]
               ELSE agent_executions
        /\ agentCancels' =
               Append(agentCancels,
                      [execution_id |-> execution_id, returned |-> known,
                       running |-> running, http |-> IF known THEN 200 ELSE 404])
        /\ UNCHANGED agentRuns

AgentNext ==
    \/ \E call \in AgentCalls : execute_custom(call)
    \/ \E execution_id \in DOMAIN agentRuns :
          \E i \in 1..Len(agentRuns[execution_id].types) : run_agent(execution_id, i)
    \/ \E execution_id \in DOMAIN agentRuns : execute_custom_return(execution_id)
    \/ \E call \in AgentCalls : execute_chain(call)
    \/ \E execution_id \in DOMAIN agentRuns : execute_chain_resume(execution_id)
    \/ \E execution_id \in 1..(MaxExecutions + 1) : controller_cancel_execution(execution_id)

(***************************************************************************)
(* WalletDataService (services/wallet_service.py): the wallet snapshot     *)
(* cache and the gas price cache. The clock counts half seconds, so that   *)
(* int(datetime.now().timestamp()) truncates.                              *)
(***************************************************************************)
TicksPerSecond == 2
MaxTicks == 60
ClockGrid == 10
MaxWalletCalls == 2
MaxInFlight == 1

WALLET_TTL == 30
GAS_TTL == 15
RPC_TIMEOUT == 10
MOCK_BASE_FEE == 20

\* datetime.now().timestamp() is walletClock / TicksPerSecond;
\* int(datetime.now().timestamp())
IntSeconds(ticks) == ticks \div TicksPerSecond

Addr_ZZ == <<48, 120, 90, 90>>
WalletAddresses == {Addr_ab, Addr_AB, Addr_ZZ}

\* int(address[-4:], 16) of _get_eth_balance's mock balance raises
\* ValueError: the tail is not a hexadecimal literal (with or without 0x)
MockBalanceRaises(address) ==
    LET n == Len(address)
        tail == SubSeq(address, IF n > 4 THEN n - 3 ELSE 1, n)
        digits == IF Len(tail) >= 2 /\ tail[1] = 48 /\ tail[2] \in {120, 88}
                  THEN SubSeq(tail, 3, Len(tail)) ELSE tail
    IN  digits = <<>> \/ \E i \in 1..Len(digits) : ~IsHexDigit(digits[i])

\* what the JSON-RPC call eth_gasPrice can end with; the price in Gwei
RpcResponses ==
    {[kind |-> k, gwei |-> 0] :
        k \in {"refused", "timeout", "http_error", "no_result", "bad_result"}}
    \cup {[kind |-> "result", gwei |-> g] : g \in {0, 1, 30}}

NoGasPrice == [isNone |-> TRUE]

GasPrice(slow, standard, fast, instant, base_fee, timestamp) ==
    [isNone |-> FALSE, slow |-> slow, standard |-> standard, fast |-> fast,
     instant |-> instant, base_fee |-> base_fee, timestamp |-> timestamp]

\* the estimate get_gas_price builds from the response, at the time `now`
\* it read when it was called
GasPriceOf(response, now) ==
    IF response.kind = "result"
    THEN LET base_fee == response.gwei
         IN  GasPrice(IF base_fee - 2 > 1 THEN base_fee - 2 ELSE 1, base_fee,
                      base_fee + 5, base_fee + 15, base_fee, now)
    ELSE LET base_fee == MOCK_BASE_FEE
         IN  GasPrice(base_fee + 1, base_fee + 3, base_fee + 10, base_fee + 25,
                      base_fee, now)

\* if self._gas_price_cache and (now - self._gas_price_updated) < 15
GasCacheFresh(now) ==
    /\ ~gas_price_cache.isNone
    /\ now - gas_price_updated < GAS_TTL

\* if datetime.now().timestamp() - cached.last_updated < 30
WalletCacheFreshLoose(ticks, cached) ==
    ticks - cached.last_updated * TicksPerSecond <= WALLET_TTL * TicksPerSecond

WalletCacheFresh(ticks, cached) ==
    ticks - cached.last_updated * TicksPerSecond < WALLET_TTL * TicksPerSecond

NoReturn == [call |-> 0]

WalletInit ==
    /\ walletClock = 0
    /\ wallet_cache = <<>>
    /\ gas_price_cache = NoGasPrice
    /\ gas_price_updated = 0
    /\ gasCachedAt = -1
    /\ walletMade = 0
    /\ walletCalls = {}
    /\ gasCalls = {}
    /\ walletRes = NoReturn
    /\ gasRes = NoReturn

\* the calls of the handlers that have not returned
InFlight == Cardinality(walletCalls) + Cardinality({g \in gasCalls : g.slot = 0})

CanCall == walletMade < MaxWalletCalls /\ InFlight < MaxInFlight

\* get_gas_price up to its first await, as a part of the call number n:
\* slot 0 is the handler of GET /api/gas-price, slot 1 the gather of
\* _fetch_wallet_data and slot 2 its except branch. The cached estimate is
\* returned at once, or the RPC is sent.
StartGas(n, slot) ==
    LET now == IntSeconds(walletClock)
    IN  IF GasCacheFresh(now)
        THEN /\ gasRes' = [call |-> n, slot |-> slot, rpc |-> FALSE,
                           estimate |-> gas_price_cache]
             /\ UNCHANGED gasCalls
        ELSE /\ gasCalls' = gasCalls \cup
                    {[call |-> n, slot |-> slot, now |-> now, started |-> walletClock]}
             /\ UNCHANGED gasRes

\* GET /api/gas-price: service.get_gas_price()
get_gas_price ==
    /\ CanCall
    /\ walletMade' = walletMade + 1
    /\ StartGas(walletMade + 1, 0)
    /\ UNCHANGED <<walletClock, wallet_cache, gas_price_cache, gas_price_updated,
                   gasCachedAt, walletCalls, walletRes>>

\* The RPC of the gas call g ends: the estimate is built, cached under the
\* time the call read at its start, and returned to the call that awaits it.
get_gas_price_rpc_done(g, response) ==
    LET elapsed == walletClock - g.started
        estimate == GasPriceOf(response, g.now)
    IN  /\ IF response.kind = "timeout"
           THEN elapsed = RPC_TIMEOUT * TicksPerSecond
           ELSE elapsed < RPC_TIMEOUT * TicksPerSecond
        /\ gas_price_cache' = estimate
        /\ gas_price_updated' = g.now
        /\ gasCachedAt' = walletClock
        /\ gasCalls' = gasCalls \ {g}
        /\ gasRes' = [call |-> g.call, slot |-> g.slot, rpc |-> TRUE,
                      estimate |-> estimate]
        /\ walletCalls' = {IF c.call = g.call /\ c.slot = g.slot
                           THEN [c EXCEPT !.gas_done = TRUE] ELSE c : c \in walletCalls}
        /\ UNCHANGED <<walletClock, wallet_cache, walletMade, walletRes>>

WalletData(address, minimal, ticks) ==
    [address |-> address, minimal |-> minimal, last_updated |-> IntSeconds(ticks)]

\* get_wallet_data up to its first await: the cached snapshot, or
\* _fetch_wallet_data starts its gather, get_gas_price among the six.
get_wallet_data(address) ==
    LET address_lower == Lower(address)
        n == walletMade + 1
    IN  /\ CanCall
        /\ walletMade' = n
        /\ IF /\ address_lower \in DOMAIN wallet_cache
              /\ WalletCacheFresh(walletClock, wallet_cache[address_lower])
           THEN /\ walletRes' = [call |-> n, address |-> address, from_cache |-> TRUE,
                                 snapshot |-> wallet_cache[address_lower]]
                /\ UNCHANGED <<walletCalls, gasCalls, gasRes>>
           ELSE /\ StartGas(n, 1)
                /\ walletCalls' = walletCalls \cup
                       {[call |-> n, address |-> address, pc |-> "gathering",
                         slot |-> 1, gas_done |-> GasCacheFresh(IntSeconds(walletClock))]}
                /\ UNCHANGED walletRes
        /\ UNCHANGED <<walletClock, wallet_cache, gas_price_cache, gas_price_updated,
                       gasCachedAt>>

\* self._wallet_cache[address_lower] = wallet_data; return wallet_data
StoreAndReturn(c, wallet_data) ==
    /\ wallet_cache' = (Lower(c.address) :> wallet_data) @@ wallet_cache
    /\ walletCalls' = walletCalls \ {c}
    /\ walletRes' = [call |-> c.call, address |-> c.address, from_cache |-> FALSE,
                     snapshot |-> wallet_data]

\* the gather of _fetch_wallet_data is done
fetch_wallet_data_done(c) ==
    /\ c.pc = "gathering"
    /\ c.gas_done
    /\ StoreAndReturn(c, WalletData(c.address, FALSE, walletClock))
    /\ UNCHANGED <<walletClock, gas_price_cache, gas_price_updated, gasCachedAt,
                   walletMade, gasCalls, gasRes>>

\* _get_eth_balance raises out of the gather (its RPC failed and the mock
\* balance cannot be computed): the except branch calls get_gas_price
\* again, while the first call may still be waiting for its RPC.
fetch_wallet_data_raise(c) ==
    /\ c.pc = "gathering"
    /\ MockBalanceRaises(c.address)
    /\ StartGas(c.call, 2)
    /\ walletCalls' = (walletCalls \ {c}) \cup
           {[c EXCEPT !.pc = "except", !.slot = 2,
                      !.gas_done = GasCacheFresh(IntSeconds(walletClock))]}
    /\ UNCHANGED <<walletClock, wallet_cache, gas_price_cache, gas_price_updated,
                   gasCachedAt, walletMade, walletRes>>

\* the except branch of _fetch_wallet_data returns the minimal data
fetch_wallet_data_except_done(c) ==
    /\ c.pc = "except"
    /\ c.gas_done
    /\ StoreAndReturn(c, WalletData(c.address, TRUE, walletClock))
    /\ UNCHANGED <<walletClock, gas_price_cache, gas_price_updated, gasCachedAt,
                   walletMade, gasCalls, gasRes>>

\* The clock is looked at half a second before and at every ClockGrid-th
\* half second, and when an RPC reaches its timeout.
Observed(ticks) ==
    \/ ticks % ClockGrid \in {0, ClockGrid - 1}
    \/ \E g \in gasCalls : ticks = g.started + RPC_TIMEOUT * TicksPerSecond

\* Time passes up to the next instant, as long as a call can still be made
\* or is under way; an RPC that has waited for its total timeout ends
\* before more time passes.
WalletTick ==
    /\ walletMade < MaxWalletCalls \/ walletCalls # {} \/ gasCalls # {}
    /\ \A g \in gasCalls : walletClock - g.started < RPC_TIMEOUT * TicksPerSecond
    /\ \E t \in (walletClock + 1)..MaxTicks :
          /\ Observed(t)
          /\ \A u \in (walletClock + 1)..(t - 1) : ~Observed(u)
          /\ walletClock' = t
    /\ UNCHANGED <<wallet_cache, gas_price_cache, gas_price_updated, gasCachedAt,
                   walletMade, walletCalls, gasCalls, walletRes, gasRes>>

WalletNext ==
    \/ get_gas_price
    \/ \E g \in gasCalls : \E response \in RpcResponses :
          get_gas_price_rpc_done(g, response)
    \/ \E address \in WalletAddresses : get_wallet_data(address)
    \/ \E c \in walletCalls : fetch_wallet_data_done(c)
    \/ \E c \in walletCalls : fetch_wallet_data_raise(c)
    \/ \E c \in walletCalls : fetch_wallet_data_except_done(c)
    \/ WalletTick

(***************************************************************************)
(* ContentDNAEngine (services/dna_engine.py). A gene value is counted in   *)
(* 256ths, so that the blends of MaxDnaCalls calls are exact; SHA-256 is   *)
(* ideal: the hash of a genome is the tuple of its gene values.            *)
(***************************************************************************)
MaxDnaCalls == 3

\* the gene types the genomes of the model hold
DnaGeneTypes == {"COLOR"}

Gene(value, dominant) == [value |-> value, dominant |-> dominant]

\* max(0.0, min(1.0, value))
Clamp01(value) == IF value < 0 THEN 0 ELSE IF value > 256 THEN 256 ELSE value

\* "DNA_" + hashlib.sha256(dna_data.encode()).hexdigest()[:32], dna_data the
\* JSON of the gene values
DnaHash(genes) == [g \in DOMAIN genes |-> genes[g].value]

\* the genome generate_dna_from_prompt derives from each prompt
DnaPrompts == {"a", "b", "c"}
PromptGenes(prompt) ==
    [g \in DnaGeneTypes |->
        CASE prompt = "a" -> Gene(64, TRUE)
          [] prompt = "b" -> Gene(192, FALSE)
          [] OTHER -> Gene(128, TRUE)]

\* a hash no genome of the model has
UnknownDnaHash == [g \in DnaGeneTypes |-> 1]

ContentDNA(dna_hash, genes, generation, parent_hashes) ==
    [dna_hash |-> dna_hash, genes |-> genes, generation |-> generation,
     parent_hashes |-> parent_hashes]

DnaInit ==
    /\ engine_registry = <<>>
    /\ dnaMade = 0
    /\ dnaRes = [op |-> "none"]

\* self._dna_registry[dna_hash] = dna
Register(dna) == engine_registry' = (dna.dna_hash :> dna) @@ engine_registry

generate_dna_from_prompt(prompt) ==
    LET genes == PromptGenes(prompt)
        dna == ContentDNA(DnaHash(genes), genes, 0, <<>>)
    IN  /\ dnaMade < MaxDnaCalls
        /\ dnaMade' = dnaMade + 1
        /\ Register(dna)
        /\ dnaRes' = [op |-> "generate", raised |-> "none", http |-> 200, dna |-> dna]

\* the inheritance of one gene: the dominant parent's value, or the blend
BaseValue(gene1, gene2) ==
    IF gene1.dominant /\ ~gene2.dominant THEN gene1.value
    ELSE IF gene2.dominant /\ ~gene1.dominant THEN gene2.value
    ELSE (gene1.value + gene2.value) \div 2

\* the genomes the draws of self._random can give the child: each gene
\* mutated by an eighth up or down or not at all, dominant or not
ChildGenes(parent1, parent2) ==
    {genes \in [DnaGeneTypes -> [value : 0..256, dominant : BOOLEAN]] :
        \A g \in DnaGeneTypes :
            \E mutation_amount \in {-32, 0, 32} :
                genes[g].value =
                    Clamp01(BaseValue(parent1.genes[g], parent2.genes[g]) + mutation_amount)}

\* a child's generation counted from the first parent only
GenerationOfFirst(parent1, parent2) == parent1.generation + 1

\* generation=max(parent1.generation, parent2.generation) + 1
ChildGeneration(parent1, parent2) ==
    (IF parent1.generation >= parent2.generation THEN parent1.generation
     ELSE parent2.generation) + 1

\* ContentDNAEngine.breed_dna and POST /api/dna/breed
engine_breed_dna(parent1_hash, parent2_hash) ==
    /\ dnaMade < MaxDnaCalls
    /\ dnaMade' = dnaMade + 1
    /\ IF parent1_hash \notin DOMAIN engine_registry
          \/ parent2_hash \notin DOMAIN engine_registry
       THEN /\ dnaRes' = [op |-> "breed", raised |-> "ValueError", http |-> 404,
                          dna |-> ContentDNA(UnknownDnaHash, <<>>, 0, <<>>)]
            /\ UNCHANGED engine_registry
       ELSE LET parent1 == engine_registry[parent1_hash]
                parent2 == engine_registry[parent2_hash]
            IN  \E child_genes \in ChildGenes(parent1, parent2) :
                    LET child_dna ==
                            ContentDNA(DnaHash(child_genes), child_genes,
                                       ChildGeneration(parent1, parent2),
                                       <<parent1_hash, parent2_hash>>)
                    IN  /\ Register(child_dna)
                        /\ dnaRes' = [op |-> "breed", raised |-> "none", http |-> 200,
                                      dna |-> child_dna]

\* ContentDNAEngine.evolve_dna without environmental factors: each gene
\* drifts by up to a 32nd
engine_evolve_dna(dna_hash) ==
    /\ dnaMade < MaxDnaCalls
    /\ dnaMade' = dnaMade + 1
    /\ IF dna_hash \notin DOMAIN engine_registry
       THEN /\ dnaRes' = [op |-> "evolve", raised |-> "ValueError", http |-> 404,
                          dna |-> ContentDNA(UnknownDnaHash, <<>>, 0, <<>>)]
            /\ UNCHANGED engine_registry
       ELSE LET original == engine_registry[dna_hash]
            IN  \E evolution_amount \in [DnaGeneTypes -> {-8, 0, 8}] :
                    LET evolved_genes ==
                            [g \in DnaGeneTypes |->
                                Gene(Clamp01(original.genes[g].value + evolution_amount[g]),
                                     original.genes[g].dominant)]
                        evolved_dna ==
                            ContentDNA(DnaHash(evolved_genes), evolved_genes,
                                       original.generation, <<dna_hash>>)
                    IN  /\ Register(evolved_dna)
                        /\ dnaRes' = [op |-> "evolve", raised |-> "none", http |-> 200,
                                      dna |-> evolved_dna]

\* ContentDNAEngine.get_dna: self._dna_registry.get(dna_hash)
engine_get_dna(registry, dna_hash) ==
    IF dna_hash \in DOMAIN registry
    THEN [isNone |-> FALSE, dna |-> registry[dna_hash]]
    ELSE [isNone |-> TRUE, dna |-> ContentDNA(UnknownDnaHash, <<>>, 0, <<>>)]

\* the hashes the callers pass: the registered ones, the hash of a prompt
\* that may not have been generated, and a hash of no genome
DnaHashInputs ==
    DOMAIN engine_registry \cup {DnaHash(PromptGenes("c")), UnknownDnaHash}

DnaNext ==
    \/ \E prompt \in DnaPrompts : generate_dna_from_prompt(prompt)
    \/ \E parent1_hash, parent2_hash \in DnaHashInputs :
          engine_breed_dna(parent1_hash, parent2_hash)
    \/ \E dna_hash \in DnaHashInputs : engine_evolve_dna(dna_hash)

(***************************************************************************)
(* Blockchain search: SearchExecutor, BlockchainSearchEngine and the two   *)
(* /api/search handlers.  Text is a sequence of code points.  The          *)
(* timestamps and execution_time_ms of a result, which come from the wall  *)
(* clock, are left out of the result records.                              *)
(***************************************************************************)
MaxSearches == 2

\* the member names of SearchCategory
Category_TRANSACTION == <<84, 82, 65, 78, 83, 65, 67, 84, 73, 79, 78>>
Category_ADDRESS == <<65, 68, 68, 82, 69, 83, 83>>
Category_TOKEN == <<84, 79, 75, 69, 78>>
Category_NFT == <<78, 70, 84>>
Category_BLOCK == <<66, 76, 79, 67, 75>>
Category_ALL == <<65, 76, 76>>
SearchCategory ==
    {Category_TRANSACTION, Category_ADDRESS, Category_TOKEN, Category_NFT,
     Category_BLOCK, Category_ALL}

\* str.upper() on ASCII text
Upper(s) == [i \in 1..Len(s) |-> IF s[i] >= 97 /\ s[i] <= 122 THEN s[i] - 32 ELSE s[i]]

\* str.strip(): without the white space at both ends
Strip(s) ==
    LET keep == {i \in 1..Len(s) : ~IsSpace(s[i])}
    IN  IF keep = {} THEN <<>>
        ELSE SubSeq(s, CHOOSE i \in keep : \A j \in keep : i <= j,
                       CHOOSE i \in keep : \A j \in keep : i >= j)

\* needle in hay, of two strings
Contains(hay, needle) ==
    \E i \in 0..(Len(hay) - Len(needle)) : SubSeq(hay, i + 1, i + Len(needle)) = needle

StartsWith(s, prefix) == Len(s) >= Len(prefix) /\ SubSeq(s, 1, Len(prefix)) = prefix

\* s + "0" * (width - len(s)) if len(s) < width else s
PadZeros(s, width) ==
    IF Len(s) < width THEN s \o [i \in 1..(width - Len(s)) |-> 48] ELSE s

\* str.isdigit() and int() of ASCII text
IsDigitText(s) == Len(s) > 0 /\ \A i \in 1..Len(s) : s[i] >= 48 /\ s[i] <= 57
RECURSIVE IntOfText(_)
IntOfText(s) ==
    IF Len(s) = 0 THEN 0
    ELSE 10 * IntOfText(SubSeq(s, 1, Len(s) - 1)) + (s[Len(s)] - 48)

LooksLikeHash(query) == StartsWith(query, <<48, 120>>) /\ Len(query) >= 10

_search_transactions(query, limit) ==
    IF LooksLikeHash(query)
    THEN <<[hash |-> PadZeros(query, 66), block_number |-> 12345678, status |-> "confirmed"]>>
    ELSE <<>>

_search_addresses(query, limit) ==
    IF LooksLikeHash(query)
    THEN <<[address |-> PadZeros(query, 42), transaction_count |-> 42]>>
    ELSE <<>>

\* known_tokens in the order of the dict: key, name, symbol
known_tokens ==
    << [key |-> <<101, 116, 104>>, name |-> <<69, 116, 104, 101, 114, 101, 117, 109>>,
        symbol |-> "ETH"],
       [key |-> <<117, 115, 100, 99>>, name |-> <<85, 83, 68, 32, 67, 111, 105, 110>>,
        symbol |-> "USDC"],
       [key |-> <<100, 97, 105>>,
        name |-> <<68, 97, 105, 32, 83, 116, 97, 98, 108, 101, 99, 111, 105, 110>>,
        symbol |-> "DAI"] >>

_search_tokens(query, limit) ==
    LET matches == SelectSeq(known_tokens,
                             LAMBDA tk : Contains(tk.key, query)
                                         \/ Contains(Lower(tk.name), query))
        results == [i \in 1..Len(matches) |->
                       [symbol |-> matches[i].symbol,
                        price_usd |-> IF Contains(matches[i].key, <<117, 115, 100>>)
                                      THEN 1 ELSE 2500]]
    IN  SubSeq(results, 1, Min(limit, Len(results)))

_search_nfts(query, limit) ==
    IF query # <<>>
    THEN <<[token_id |-> 1, name_suffix |-> SubSeq(query, 1, Min(10, Len(query)))]>>
    ELSE <<>>

_search_blocks(query, limit) ==
    IF IsDigitText(query)
    THEN <<[number |-> IntOfText(query), transaction_count |-> 150]>>
    ELSE <<>>

\* SearchExecutor.search; categories is None or a list of SearchCategory members
executor_search(query, categories, limit) ==
    LET cats == IF categories.isNone THEN {Category_ALL}
                ELSE {categories.items[i] : i \in 1..Len(categories.items)}
        query_lower == Strip(Lower(query))
        In(c) == Category_ALL \in cats \/ c \in cats
        transactions == IF In(Category_TRANSACTION)
                        THEN _search_transactions(query_lower, limit) ELSE <<>>
        addresses == IF In(Category_ADDRESS)
                     THEN _search_addresses(query_lower, limit) ELSE <<>>
        tokens == IF In(Category_TOKEN) THEN _search_tokens(query_lower, limit) ELSE <<>>
        nfts == IF In(Category_NFT) THEN _search_nfts(query_lower, limit) ELSE <<>>
        blocks == IF In(Category_BLOCK) THEN _search_blocks(query_lower, limit) ELSE <<>>
    IN  [query |-> query,
         total_results |-> Len(transactions) + Len(addresses) + Len(tokens)
                           + Len(nfts) + Len(blocks),
         transactions |-> transactions, addresses |-> addresses, tokens |-> tokens,
         nfts |-> nfts, blocks |-> blocks]

SearchQueries ==
    { <<101, 116, 104>>, <<68>>, <<32>>, <<49, 50>>,
      <<48, 120, 49, 50, 51, 52, 53, 54, 55, 56>> }
SearchLimits == {1, 20}

\* the 'categories' of a POST body and the 'category' of a GET query string
PostCategories ==
    { NoList, SomeList(<<>>), SomeList(<<<<97, 108, 108>>>>),
      SomeList(<<<<116, 111, 107, 101, 110>>>>),
      SomeList(<<Category_NFT, <<98, 108, 111, 99, 107>>>>),
      SomeList(<<<<98, 111, 103, 117, 115>>>>) }
GetCategories ==
    { Absent, Given(<<>>), Given(Category_ALL), Given(<<116, 111, 107, 101, 110>>),
      Given(<<98, 111, 103, 117, 115>>) }

SearchInit ==
    /\ search_history = <<>>
    /\ popular_cache = EmptyDict
    /\ search_analytics = <<>>
    /\ searchRes = [method |-> "none"]

\* BlockchainSearchEngine.search: records the search, then runs the executor
engine_search(method, named, query, categories, limit) ==
    /\ search_history' = Append(search_history, query)
    /\ popular_cache' =
           DictUpdate(popular_cache,
                      [k \in {Lower(query)} |-> DictGet(popular_cache, Lower(query), 0) + 1])
    /\ search_analytics' =
           Append(search_analytics,
                  [query |-> query,
                   categories |-> IF ~categories.isNone /\ categories.items # <<>>
                                  THEN categories.items ELSE <<Category_ALL>>])
    /\ searchRes' = [method |-> method, named |-> named, query |-> query, limit |-> limit,
                     status |-> 200, body |-> executor_search(query, categories, limit)]

InvalidCategory(method, query, limit) ==
    /\ searchRes' = [method |-> method, named |-> TRUE, query |-> query, limit |-> limit,
                     status |-> 400]
    /\ UNCHANGED <<search_history, popular_cache, search_analytics>>

\* POST /api/search
search_blockchain(query, request_categories, limit) ==
    LET named == ~request_categories.isNone /\ request_categories.items # <<>>
        names == IF named THEN request_categories.items ELSE <<>>
    IN  /\ Len(search_analytics) < MaxSearches
        /\ IF \E i \in 1..Len(names) : Upper(names[i]) \notin SearchCategory
           THEN InvalidCategory("POST", query, limit)
           ELSE engine_search("POST", named, query,
                              SomeList([i \in 1..Len(names) |-> Upper(names[i])]), limit)

\* GET /api/search
search_blockchain_get(q, category, limit) ==
    LET named == ~category.isNone /\ category.s # <<>>
    IN  /\ Len(search_analytics) < MaxSearches
        /\ IF named /\ Upper(category.s) \notin SearchCategory
           THEN InvalidCategory("GET", q, limit)
           ELSE engine_search("GET", named, q,
                              SomeList(IF named THEN <<Upper(category.s)>> ELSE <<>>), limit)

SearchNext ==
    \/ \E q \in SearchQueries, c \in PostCategories, l \in SearchLimits :
           search_blockchain(q, c, l)
    \/ \E q \in SearchQueries, c \in GetCategories, l \in SearchLimits :
           search_blockchain_get(q, c, l)

(***************************************************************************)
(* EmotionAI interaction history (services/emotion_ai.py): record_emotion  *)
(* and calculate_emotional_resonance.  An EmotionState is its primary      *)
(* emotion; of the resonance metrics the model keeps interaction_count and *)
(* emotion_distribution, the others are floating-point figures derived     *)
(* from the same list.                                                     *)
(***************************************************************************)
MaxRecords == 3
HISTORY_LIMIT == 1000

ContentIds == {"a", "b"}
EmotionStates == {"HAPPY", "NEUTRAL"}

\* history[-n:] for n > 0
LastEntries(history, n) ==
    IF Len(history) <= n THEN history ELSE SubSeq(history, Len(history) - n + 1, Len(history))

\* A trimming that keeps the first entries of the list instead of the last.
keep_first(history) ==
    IF Len(history) > HISTORY_LIMIT THEN SubSeq(history, 1, HISTORY_LIMIT) ELSE history

\* if len(history) > 1000: history = history[-1000:]
keep_last(history) ==
    IF Len(history) > HISTORY_LIMIT THEN LastEntries(history, HISTORY_LIMIT) ELSE history

\* The history of content "a" after k record_emotion calls that alternate
\* between the two states.
Recorded(k) == [i \in 1..k |-> IF i % 2 = 0 THEN "HAPPY" ELSE "NEUTRAL"]

\* the numbers of interactions content "a" has had when the model starts
EarlierRecords == {0, HISTORY_LIMIT - 1, HISTORY_LIMIT}

NoResonance == [content_id |-> "none", interaction_count |-> 0, emotion_distribution |-> EmptyDict]

EmotionIdle ==
    /\ emotion_history = EmptyDict
    /\ emotionLog = [c \in ContentIds |-> <<>>]
    /\ emotionRes = NoResonance

EmotionInit ==
    /\ \E k \in EarlierRecords :
           /\ emotion_history = IF k = 0 THEN EmptyDict ELSE [c \in {"a"} |-> Recorded(k)]
           /\ emotionLog = [c \in ContentIds |-> IF c = "a" THEN Recorded(k) ELSE <<>>]
    /\ emotionRes = NoResonance

record_emotion(content_id, emotion_state) ==
    LET before == DictGet(emotion_history, content_id, <<>>)
    IN  /\ emotion_history' =
               DictUpdate(emotion_history,
                          [c \in {content_id} |-> keep_last(Append(before, emotion_state))])
        /\ emotionLog' = [emotionLog EXCEPT ![content_id] = Append(@, emotion_state)]
        /\ UNCHANGED emotionRes

calculate_emotional_resonance(content_id) ==
    LET history == DictGet(emotion_history, content_id, <<>>)
        seen == {history[i] : i \in 1..Len(history)}
    IN  /\ emotionRes' =
               [content_id |-> content_id,
                interaction_count |-> Len(history),
                emotion_distribution |->
                    [e \in seen |-> Cardinality({i \in 1..Len(history) : history[i] = e})]]
        /\ UNCHANGED <<emotion_history, emotionLog>>

\* A content id takes MaxRecords states from an empty history on, or from a
\* history that is about to fill up.
MayRecord(c) ==
    Len(emotionLog[c]) < (IF Len(emotionLog[c]) >= HISTORY_LIMIT - 1
                          THEN HISTORY_LIMIT + MaxRecords ELSE MaxRecords)

EmotionNext ==
    \/ \E c \in ContentIds, s \in EmotionStates :
           /\ MayRecord(c)
           /\ record_emotion(c, s)
    \/ \E c \in ContentIds : calculate_emotional_resonance(c)

(***************************************************************************)
(* ConnectionManager and the websocket endpoints (api.py).  A websocket is *)
(* a number; each one is connected once, by its endpoint, and the endpoint *)
(* calls disconnect with the arguments of its connect when the client      *)
(* goes away.  A broadcast iterates over the live set object while other   *)
(* tasks run during each send.                                             *)
(***************************************************************************)
MaxSockets == 3

Sockets == 1..MaxSockets
ConnectionTypes == {"wallet", "agents"}
WalletIds == {"0xa", "0xb"}
NoIdentifier == "None"

\* the arguments of the endpoints: the wallet endpoint passes the address
ConnectArgs ==
    [connection_type : {"wallet"}, identifier : WalletIds]
    \cup [connection_type : {"agents"}, identifier : {NoIdentifier}]

NoBroadcast ==
    [pc |-> "none", kind |-> "none", key |-> "none", size |-> 0, orphan |-> FALSE,
     start |-> {}, stayed |-> {}, current |-> 0, visited |-> {}, delivered |-> {},
     disconnected |-> {}]

ConnInit ==
    /\ active_connections = EmptyDict
    /\ wallet_subscriptions = EmptyDict
    /\ wsArgs = EmptyDict
    /\ wsLive = {}
    /\ bcast = NoBroadcast

\* The set object a running broadcast iterates over, as it is now.
IteratedSet(b, active, subscriptions) ==
    IF b.kind = "type" THEN DictGet(active, b.key, {})
    ELSE IF b.orphan THEN {}
    ELSE DictGet(subscriptions, b.key, {})

\* What a running broadcast sees of a connect or disconnect: a websocket
\* that leaves has not stayed for the whole broadcast, and a subscription
\* set that is deleted is no longer the set of its address.
Seen(b, websocket, subscriptions) ==
    IF b.pc # "sending" THEN b
    ELSE [b EXCEPT !.stayed = @ \ {websocket},
                   !.orphan = @ \/ (b.kind = "wallet" /\ b.key \notin DOMAIN subscriptions)]

\* ConnectionManager.connect, after websocket.accept()
connect(websocket, connection_type, identifier) ==
    /\ websocket \notin DOMAIN wsArgs
    /\ active_connections' =
           DictUpdate(active_connections,
                      [k \in {connection_type} |->
                          DictGet(active_connections, connection_type, {}) \cup {websocket}])
    /\ wallet_subscriptions' =
           IF identifier # NoIdentifier /\ connection_type = "wallet"
           THEN DictUpdate(wallet_subscriptions,
                           [k \in {identifier} |->
                               DictGet(wallet_subscriptions, identifier, {}) \cup {websocket}])
           ELSE wallet_subscriptions
    /\ wsArgs' = DictUpdate(wsArgs, [k \in {websocket} |->
                                        [connection_type |-> connection_type,
                                         identifier |-> identifier]])
    /\ wsLive' = wsLive \cup {websocket}
    /\ UNCHANGED bcast

\* ConnectionManager.disconnect, called by the endpoint on WebSocketDisconnect
disconnect(websocket, connection_type, identifier) ==
    LET left == DictGet(wallet_subscriptions, identifier, {}) \ {websocket}
        subscriptions ==
            IF identifier # NoIdentifier /\ connection_type = "wallet"
               /\ identifier \in DOMAIN wallet_subscriptions
            THEN IF left = {}
                 THEN [k \in DOMAIN wallet_subscriptions \ {identifier} |->
                          wallet_subscriptions[k]]
                 ELSE [wallet_subscriptions EXCEPT ![identifier] = left]
            ELSE wallet_subscriptions
    IN  /\ websocket \in wsLive
        /\ wsLive' = wsLive \ {websocket}
        /\ active_connections' =
               IF connection_type \in DOMAIN active_connections
               THEN [active_connections EXCEPT ![connection_type] = @ \ {websocket}]
               ELSE active_connections
        /\ wallet_subscriptions' = subscriptions
        /\ bcast' = Seen(bcast, websocket, subscriptions)
        /\ UNCHANGED wsArgs

\* The cleanup after the loop: every connection whose send failed is
\* discarded from the set the broadcast went over.
CleanUp(b) ==
    /\ active_connections' =
           IF b.kind = "type"
           THEN [active_connections EXCEPT ![b.key] = @ \ b.disconnected]
           ELSE active_connections
    /\ wallet_subscriptions' =
           IF b.kind = "wallet" /\ b.key \in DOMAIN wallet_subscriptions
           THEN [wallet_subscriptions EXCEPT ![b.key] = @ \ b.disconnected]
           ELSE wallet_subscriptions

\* The for statement asks the set iterator for the next connection.  The
\* iterator raises RuntimeError when the set has another size than at the
\* start of the loop; with the same size it goes on over the connections
\* it has not visited, and may or may not come across one added meanwhile.
NextConnection(b) ==
    LET now == IteratedSet(b, active_connections, wallet_subscriptions)
        rest == now \ b.visited
    IN  IF Cardinality(now) # b.size
        THEN /\ bcast' = [b EXCEPT !.pc = "RuntimeError", !.current = 0]
             /\ UNCHANGED <<active_connections, wallet_subscriptions>>
        ELSE \/ \E websocket \in rest :
                    /\ bcast' = [b EXCEPT !.pc = "sending", !.current = websocket,
                                          !.visited = @ \cup {websocket}]
                    /\ UNCHANGED <<active_connections, wallet_subscriptions>>
             \/ /\ rest \cap b.start = {}
                /\ bcast' = [b EXCEPT !.pc = "done", !.current = 0]
                /\ CleanUp(b)

StartBroadcast(kind, key, connections) ==
    NextConnection([NoBroadcast EXCEPT !.kind = kind, !.key = key,
                                       !.size = Cardinality(connections),
                                       !.start = connections, !.stayed = connections])

\* ConnectionManager.broadcast_to_type up to its first await
broadcast_to_type(connection_type) ==
    /\ bcast.pc # "sending"
    /\ IF connection_type \in DOMAIN active_connections
       THEN StartBroadcast("type", connection_type, active_connections[connection_type])
       ELSE /\ bcast' = [NoBroadcast EXCEPT !.pc = "done", !.kind = "type",
                                            !.key = connection_type]
            /\ UNCHANGED <<active_connections, wallet_subscriptions>>
    /\ UNCHANGED <<wsArgs, wsLive>>

\* ConnectionManager.broadcast_to_wallet up to its first await
broadcast_to_wallet(wallet_address) ==
    /\ bcast.pc # "sending"
    /\ IF wallet_address \in DOMAIN wallet_subscriptions
       THEN StartBroadcast("wallet", wallet_address, wallet_subscriptions[wallet_address])
       ELSE /\ bcast' = [NoBroadcast EXCEPT !.pc = "done", !.kind = "wallet",
                                            !.key = wallet_address]
            /\ UNCHANGED <<active_connections, wallet_subscriptions>>
    /\ UNCHANGED <<wsArgs, wsLive>>

\* connection.send_text returns, or raises because the client is gone, and
\* the loop goes on
send_text_done(sent) ==
    /\ bcast.pc = "sending"
    /\ NextConnection(IF sent
                      THEN [bcast EXCEPT !.delivered = @ \cup {bcast.current}]
                      ELSE [bcast EXCEPT !.disconnected = @ \cup {bcast.current}])
    /\ UNCHANGED <<wsArgs, wsLive>>

\* sum(len(conns) for conns in wallet_subs.values()) of GET /api/system/status
RECURSIVE SumOfSizes(_)
SumOfSizes(d) ==
    IF DOMAIN d = {} THEN 0
    ELSE LET k == CHOOSE k \in DOMAIN d : TRUE
         IN  Cardinality(d[k]) + SumOfSizes([j \in DOMAIN d \ {k} |-> d[j]])

wallet_connections == SumOfSizes(wallet_subscriptions)

ConnNext ==
    \/ \E websocket \in Sockets, args \in ConnectArgs :
           connect(websocket, args.connection_type, args.identifier)
    \/ \E websocket \in DOMAIN wsArgs :
           disconnect(websocket, wsArgs[websocket].connection_type,
                      wsArgs[websocket].identifier)
    \/ \E connection_type \in ConnectionTypes : broadcast_to_type(connection_type)
    \/ \E wallet_address \in WalletIds : broadcast_to_wallet(wallet_address)
    \/ \E sent \in BOOLEAN : send_text_done(sent)

(***************************************************************************)
(* BlockchainEventListener (services/blockchain.py).  Two contracts with a *)
(* Minted event are monitored and a handler is registered for Minted.  A   *)
(* start_listening coroutine is "running" while it holds the event loop,   *)
(* in which case nothing else runs, "handler" while the handler it awaits  *)
(* is suspended, and "sleeping" in asyncio.sleep.                          *)
(***************************************************************************)
MaxBlock == 2
MaxLoops == 2
MaxEvents == 6

ListenerLoops == 1..MaxLoops

\* self._contracts in the order of the dict
MonitoredContracts == <<"0xc1", "0xc2">>

NotStarted == [pc |-> "none", latest_block |-> 0, position |-> 0]

ListenerInit ==
    /\ latestBlock = 1
    /\ _running = FALSE
    /\ _last_processed_block = 0
    /\ _processed_events = <<>>
    /\ listenerLoops = [l \in ListenerLoops |-> NotStarted]
    /\ handlerRaised = {}

\* no coroutine holds the event loop
LoopFree == \A l \in ListenerLoops : listenerLoops[l].pc # "running"

\* time passes: a new block
NewBlock ==
    /\ LoopFree
    /\ latestBlock < MaxBlock
    /\ latestBlock' = latestBlock + 1
    /\ UNCHANGED <<_running, _last_processed_block, _processed_events, listenerLoops,
                   handlerRaised>>

\* _poll_events up to the loop over the contracts: nothing to do when the
\* latest block has been processed, the coroutine then sleeps
_poll_events(l) ==
    IF latestBlock <= _last_processed_block
    THEN [pc |-> "sleeping", latest_block |-> latestBlock, position |-> 0]
    ELSE [pc |-> "running", latest_block |-> latestBlock, position |-> 1]

\* start_listening up to the first poll
start_listening(l) ==
    /\ LoopFree
    /\ listenerLoops[l].pc = "none"
    /\ Len(_processed_events) < MaxEvents
    /\ _running' = TRUE
    /\ listenerLoops' = [listenerLoops EXCEPT ![l] = _poll_events(l)]
    /\ UNCHANGED <<latestBlock, _last_processed_block, _processed_events, handlerRaised>>

stop_listening ==
    /\ LoopFree
    /\ _running
    /\ _running' = FALSE
    /\ UNCHANGED <<latestBlock, _last_processed_block, _processed_events, listenerLoops,
                   handlerRaised>>

\* asyncio.sleep is over: the while condition, then the next poll
wake(l) ==
    /\ LoopFree
    /\ listenerLoops[l].pc = "sleeping"
    /\ Len(_processed_events) < MaxEvents
    /\ listenerLoops' =
           [listenerLoops EXCEPT
                ![l] = IF _running THEN _poll_events(l) ELSE [@ EXCEPT !.pc = "ended"]]
    /\ UNCHANGED <<latestBlock, _running, _last_processed_block, _processed_events,
                   handlerRaised>>

\* _poll_events after the loop over the contracts:
\* self._last_processed_block = latest_block, then asyncio.sleep(5)
finish_poll(l) ==
    /\ listenerLoops[l].pc = "running"
    /\ listenerLoops[l].position > Len(MonitoredContracts)
    /\ _last_processed_block' = listenerLoops[l].latest_block
    /\ listenerLoops' = [listenerLoops EXCEPT ![l].pc = "sleeping"]
    /\ UNCHANGED <<latestBlock, _running, _processed_events, handlerRaised>>

\* _process_contract_events and _handle_event for the contract at the
\* position of the loop: the Minted event of the block is appended and the
\* handler awaited; it returns or raises at once, or it suspends.
_handle_event(l, handler) ==
    LET loop == listenerLoops[l]
        event == [contract_address |-> MonitoredContracts[loop.position],
                  block_number |-> loop.latest_block]
    IN  /\ loop.pc = "running"
        /\ loop.position <= Len(MonitoredContracts)
        /\ _processed_events' = Append(_processed_events, event)
        /\ handlerRaised' = IF handler = "raises" THEN handlerRaised \cup {event}
                            ELSE handlerRaised
        /\ listenerLoops' =
               [listenerLoops EXCEPT
                    ![l] = IF handler = "suspends" THEN [@ EXCEPT !.pc = "handler"]
                           ELSE [@ EXCEPT !.position = @ + 1]]
        /\ UNCHANGED <<latestBlock, _running, _last_processed_block>>

\* the suspended handler returns or raises; the exception is caught
handler_done(l, raises) ==
    LET loop == listenerLoops[l]
        event == [contract_address |-> MonitoredContracts[loop.position],
                  block_number |-> loop.latest_block]
    IN  /\ LoopFree
        /\ loop.pc = "handler"
        /\ handlerRaised' = IF raises THEN handlerRaised \cup {event} ELSE handlerRaised
        /\ listenerLoops' =
               [listenerLoops EXCEPT ![l] = [@ EXCEPT !.pc = "running", !.position = @ + 1]]
        /\ UNCHANGED <<latestBlock, _running, _last_processed_block, _processed_events>>

ListenerNext ==
    \/ NewBlock
    \/ \E l \in ListenerLoops : start_listening(l)
    \/ stop_listening
    \/ \E l \in ListenerLoops : wake(l)
    \/ \E l \in ListenerLoops, handler \in {"returns", "raises", "suspends"} :
           _handle_event(l, handler)
    \/ \E l \in ListenerLoops, raises \in BOOLEAN : handler_done(l, raises)
    \/ \E l \in ListenerLoops : finish_poll(l)

(***************************************************************************)
(* Specifications                                                          *)
(***************************************************************************)
vars == <<ipfsVars, uploadVars, metaVars, nftVars, genVars, apiVars, restVars>>

\* the sections after the API handlers, at rest
LateIdle == SearchInit /\ EmotionIdle /\ ConnInit /\ ListenerInit
RestIdle == AddrInit /\ AgentInit /\ WalletInit /\ DnaInit /\ LateIdle

InitIpfs ==
    IpfsInit /\ UploadIdle /\ MetaIdle /\ NftInit /\ GenInit /\ ApiInit /\ RestIdle
NextIpfs ==
    IpfsNext /\ UNCHANGED <<uploadVars, metaVars, nftVars, genVars, apiVars, restVars>>
SpecIpfs == InitIpfs /\ [][NextIpfs]_vars

InitUpload ==
    IpfsInit /\ UploadInit /\ MetaIdle /\ NftInit /\ GenInit /\ ApiInit /\ RestIdle
NextUpload ==
    UploadNext /\ UNCHANGED <<metaVars, nftVars, genVars, apiVars, restVars>>
SpecUpload == InitUpload /\ [][NextUpload]_vars

InitMeta ==
    IpfsInit /\ UploadIdle /\ MetaInit /\ NftInit /\ GenInit /\ ApiInit /\ RestIdle
NextMeta ==
    MetaNext /\ UNCHANGED <<ipfsVars, uploadVars, nftVars, genVars, apiVars, restVars>>
SpecMeta == InitMeta /\ [][NextMeta]_vars

InitNft ==
    IpfsInit /\ UploadIdle /\ MetaIdle /\ NftInit /\ GenInit /\ ApiInit /\ RestIdle
NextNft ==
    NftNext /\ UNCHANGED <<ipfsVars, uploadVars, metaVars, genVars, apiVars, restVars>>
SpecNft == InitNft /\ [][NextNft]_vars

InitGen ==
    IpfsInit /\ UploadIdle /\ MetaIdle /\ NftInit /\ GenInit /\ ApiInit /\ RestIdle
NextGen ==
    GenNext /\ UNCHANGED <<ipfsVars, uploadVars, metaVars, nftVars, apiVars, restVars>>
SpecGen == InitGen /\ [][NextGen]_vars

InitApi ==
    IpfsInit /\ UploadIdle /\ MetaIdle /\ NftInit /\ GenInit /\ ApiInit /\ RestIdle
NextApi == ApiNext /\ UNCHANGED <<metaVars, restVars>>
SpecApi == InitApi /\ [][NextApi]_vars

InitAddr ==
    IpfsInit /\ UploadIdle /\ MetaIdle /\ NftInit /\ GenInit /\ ApiInit /\ RestIdle
NextAddr ==
    AddrNext /\ UNCHANGED <<ipfsVars, uploadVars, metaVars, nftVars, apiVars, agentVars,
                            walletVars, dnaVars, lateVars>>
SpecAddr == InitAddr /\ [][NextAddr]_vars

InitAgents ==
    IpfsInit /\ UploadIdle /\ MetaIdle /\ NftInit /\ GenInit /\ ApiInit /\ RestIdle
NextAgents ==
    AgentNext /\ UNCHANGED <<ipfsVars, uploadVars, metaVars, nftVars, genVars, apiVars,
                             addrVars, walletVars, dnaVars, lateVars>>
SpecAgents == InitAgents /\ [][NextAgents]_vars

InitWallet ==
    IpfsInit /\ UploadIdle /\ MetaIdle /\ NftInit /\ GenInit /\ ApiInit /\ RestIdle
NextWallet ==
    WalletNext /\ UNCHANGED <<ipfsVars, uploadVars, metaVars, nftVars, genVars, apiVars,
                              addrVars, agentVars, dnaVars, lateVars>>
SpecWallet == InitWallet /\ [][NextWallet]_vars

InitDna ==
    IpfsInit /\ UploadIdle /\ MetaIdle /\ NftInit /\ GenInit /\ ApiInit /\ RestIdle
NextDna ==
    DnaNext /\ UNCHANGED <<ipfsVars, uploadVars, metaVars, nftVars, genVars, apiVars,
                           addrVars, agentVars, walletVars, lateVars>>
SpecDna == InitDna /\ [][NextDna]_vars

\* the sections before the search section, unchanged
earlyVars ==
    <<ipfsVars, uploadVars, metaVars, nftVars, genVars, apiVars, addrVars, agentVars,
      walletVars, dnaVars>>

InitSearch ==
    IpfsInit /\ UploadIdle /\ MetaIdle /\ NftInit /\ GenInit /\ ApiInit /\ RestIdle
NextSearch == SearchNext /\ UNCHANGED <<earlyVars, emotionVars, connVars, listenerVars>>
SpecSearch == InitSearch /\ [][NextSearch]_vars

InitEmotion ==
    /\ IpfsInit /\ UploadIdle /\ MetaIdle /\ NftInit /\ GenInit /\ ApiInit
    /\ AddrInit /\ AgentInit /\ WalletInit /\ DnaInit
    /\ SearchInit /\ EmotionInit /\ ConnInit /\ ListenerInit
NextEmotion == EmotionNext /\ UNCHANGED <<earlyVars, searchVars, connVars, listenerVars>>
SpecEmotion == InitEmotion /\ [][NextEmotion]_vars

InitConn ==
    IpfsInit /\ UploadIdle /\ MetaIdle /\ NftInit /\ GenInit /\ ApiInit /\ RestIdle
NextConn == ConnNext /\ UNCHANGED <<earlyVars, searchVars, emotionVars, listenerVars>>
SpecConn == InitConn /\ [][NextConn]_vars

InitListener ==
    IpfsInit /\ UploadIdle /\ MetaIdle /\ NftInit /\ GenInit /\ ApiInit /\ RestIdle
NextListener == ListenerNext /\ UNCHANGED <<earlyVars, searchVars, emotionVars, connVars>>
SpecListener == InitListener /\ [][NextListener]_vars

(***************************************************************************)
(* C1: every content stored with upload_content is returned unchanged by   *)
(* get_content for the CID the upload returned, with size equal to the     *)
(* number of bytes, in every state reached by later uploads, pins and      *)
(* unpins.                                                                 *)
(***************************************************************************)
C1_RoundTrip ==
    \A u \in uploads :
        /\ get_content(u.cid).ok
        /\ get_content(u.cid).content = u.bytes
        /\ get_content(u.cid).size = Len(u.bytes)

\* The digit 9 repeated 4301 times has been uploaded, and get_content of
\* the CID the upload returned has raised ValueError.
C1_Witness ==
    /\ ipfsRes.op = "get"
    /\ ~ipfsRes.ok
    /\ \E u \in uploads :
          /\ u.cid = ipfsRes.cid
          /\ u.bytes = LongIntegerContent.data
          /\ storage[u.cid] = u.bytes

(***************************************************************************)
(* C7: a GET /api/content/{cid} that follows POST /api/upload of the       *)
(* string s, with the cid of the upload answer, answers 200 with the UTF-8 *)
(* bytes of s.                                                             *)
(***************************************************************************)
C7_BodyIsUtf8 ==
    (apiUpload.status = 200 /\ apiGet.status # 0 /\ apiGet.cid = apiUpload.cid)
        => (apiGet.status = 200 /\ apiGet.body = EncodeUtf8(reqContent).bytes)

\* C7, what the two handlers do instead: the body is the base64 decoding of
\* s when s decodes (characters outside the alphabet skipped), and the UTF-8
\* bytes of s only when the decoding raises.
C7_BodyIsDecodedUpload ==
    (apiUpload.status = 200 /\ apiGet.status # 0 /\ apiGet.cid = apiUpload.cid)
        => /\ apiGet.status = 200
           /\ b64decode(reqContent).ok => apiGet.body = b64decode(reqContent).bytes
           /\ ~b64decode(reqContent).ok => apiGet.body = EncodeUtf8(reqContent).bytes

\* "AA ==" was posted and read back as the single byte 0, not as its five
\* UTF-8 bytes.
C7_Witness ==
    /\ reqContent = <<65, 65, 32, 61, 61>>
    /\ apiUpload.status = 200
    /\ apiGet.status = 200
    /\ apiGet.cid = apiUpload.cid
    /\ apiGet.body = <<0>>

(***************************************************************************)
(* C2: for every Metadata object that passes validate(),                   *)
(* from_json(m.to_json()) returns an object equal to m, and serializing    *)
(* that object again yields the same JSON document.                        *)
(***************************************************************************)
C2_JsonRoundTrip ==
    (metaValid = "none" /\ metaPc \in {"serialized", "done"}) =>
        /\ metaJson.exc = "none"
        /\ metaPc = "done" =>
              /\ metaBack.exc = "none"
              /\ MetadataEq(metaBack.val, metaObj)
              /\ to_json(metaBack.val) = metaJson

(***************************************************************************)
(* C10 as stated: from_json raises ValueError exactly when one of the ten  *)
(* required fields is missing or has the wrong type (the timestamp a       *)
(* positive integer), and returns a Metadata otherwise.                    *)
(***************************************************************************)
RequiredPresentAndTyped(doc) ==
    /\ doc.kind = "dict"
    /\ RequiredFields \cap doc.missing = {}
    /\ \A v \in {doc.name, doc.description, doc.image, doc.content_type,
                 doc.content_hash, doc.creator_address, doc.prompt,
                 doc.model_version} : v.t = "str"
    /\ doc.timestamp.t = "int" /\ doc.timestamp.n > 0
    /\ doc.generation_parameters.t = "dict"

\* C10: from_json raises ValueError if and only if a required field is
\* missing or wrongly typed.
C10_RaisesIffRequiredBad ==
    metaParsed.exc # "pending" =>
        /\ metaParsed.exc \in {"none", "ValueError"}
        /\ metaParsed.exc = "ValueError" <=> ~RequiredPresentAndTyped(metaDoc)

(***************************************************************************)
(* C10, what from_json does instead: it raises ValueError exactly when a   *)
(* required field is missing or wrongly typed (a JSON boolean passing for  *)
(* an integer timestamp), a required string is blank, content_type is not  *)
(* IMAGE, TEXT or MUSIC, creator_address does not start with 0x or is not  *)
(* 42 characters long, the timestamp is not positive, or a present         *)
(* attributes, provenance or evolution member is malformed; it returns a   *)
(* Metadata otherwise.                                                     *)
(***************************************************************************)
AttributesWellFormed(doc) ==
    "attributes" \notin doc.missing =>
        /\ doc.attributes.t = "list"
        /\ \A i \in 1..Len(doc.attributes.items) :
              LET item == doc.attributes.items[i]
              IN  /\ item.isDict
                  /\ item.has = {"trait_type", "value"}
                  /\ item.trait_type.t = "str"
                  /\ item.trait_type.s # <<>>
                  /\ \E j \in 1..Len(item.trait_type.s) : ~IsSpace(item.trait_type.s[j])

ProvenanceWellFormed(doc) ==
    "provenance" \notin doc.missing =>
        LET p == doc.provenance
        IN  /\ p.t = "dict"
            /\ ProvenanceKeys \ {"collaborators"} \subseteq p.has
            /\ \A v \in {p.model_hash, p.prompt_hash, p.creator} :
                  v.t = "str" /\ \E j \in 1..Len(v.s) : ~IsSpace(v.s[j])
            /\ p.seed.t \in {"int", "bool"}
            /\ p.timestamp.t \in {"int", "bool", "float"} /\ p.timestamp.n > 0
            /\ "collaborators" \in p.has => p.collaborators.t = "list"

EvolutionWellFormed(doc) ==
    "evolution" \notin doc.missing =>
        LET e == doc.evolution
        IN  /\ e.t = "dict"
            /\ "derivation_type" \in e.has
            /\ e.derivation_type.t = "str"
            /\ e.derivation_type.s \in {ORIGINAL, REMIX, EVOLUTION}
            /\ "parent_tokens" \in e.has =>
                  /\ e.parent_tokens.t = "list"
                  /\ \A i \in 1..Len(e.parent_tokens.items) :
                        /\ e.parent_tokens.items[i].t \in {"int", "bool"}
                        /\ e.parent_tokens.items[i].n >= 0

DocAccepted(doc) ==
    /\ doc.kind = "dict"
    /\ RequiredFields \cap doc.missing = {}
    /\ \A v \in {doc.name, doc.description, doc.image, doc.content_hash,
                 doc.creator_address, doc.prompt, doc.model_version} :
          v.t = "str" /\ \E j \in 1..Len(v.s) : ~IsSpace(v.s[j])
    /\ doc.content_type.t = "str" /\ doc.content_type.s \in {IMAGE, TEXT, MUSIC}
    /\ Len(doc.creator_address.s) = 42
    /\ SubSeq(doc.creator_address.s, 1, 2) = <<48, 120>>
    /\ doc.timestamp.t \in {"int", "bool"} /\ doc.timestamp.n > 0
    /\ doc.generation_parameters.t = "dict"
    /\ AttributesWellFormed(doc)
    /\ ProvenanceWellFormed(doc)
    /\ EvolutionWellFormed(doc)

\* C10, the ValueError of from_json against the conditions above
C10_RaisesIffNotAccepted ==
    metaParsed.exc # "pending" =>
        /\ metaParsed.exc \in {"none", "ValueError"}
        /\ metaParsed.exc = "ValueError" <=> ~DocAccepted(metaDoc)

\* A document whose timestamp is the JSON value true was parsed and a
\* Metadata was returned.
C10_Witness ==
    /\ metaParsed.exc = "none"
    /\ metaDoc.kind = "dict"
    /\ "timestamp" \notin metaDoc.missing
    /\ metaDoc.timestamp = PyBool(TRUE)

(***************************************************************************)
(* C3 as stated: GET /api/nfts returns only NFTs that match every filter   *)
(* given in the query (content_type equal, creator equal ignoring letter   *)
(* case), and total is the number of indexed NFTs that match all of them.  *)
(***************************************************************************)
FoldCase(c) == IF c \in 65..90 THEN c + 32 ELSE c

EqualIgnoringCase(a, b) ==
    Len(a) = Len(b) /\ \A i \in 1..Len(a) : FoldCase(a[i]) = FoldCase(b[i])

MatchesGiven(n, req) ==
    /\ ~req.content_type.isNone => n.content_type = req.content_type.s
    /\ ~req.creator.isNone => EqualIgnoringCase(n.creator_address, req.creator.s)

\* C3: the answer holds only NFTs matching every given filter, and total
\* counts the indexed NFTs matching them.
C3_OnlyMatchingGiven ==
    nftResp.status = 200 =>
        /\ \A i \in 1..Len(nftResp.nfts) : MatchesGiven(nftResp.nfts[i], nftReq)
        /\ nftResp.total =
              Cardinality({i \in 1..Len(nft_index) : MatchesGiven(nft_index[i], nftReq)})

(***************************************************************************)
(* C3 amended: the same, where a creator filter given as the empty string  *)
(* counts as no creator filter.                                            *)
(***************************************************************************)
MatchesNonEmpty(n, req) ==
    /\ ~req.content_type.isNone => n.content_type = req.content_type.s
    /\ (~req.creator.isNone /\ req.creator.s # <<>>) =>
           EqualIgnoringCase(n.creator_address, req.creator.s)

\* C3 amended: the answer holds only NFTs matching every filter that is
\* given and not empty, and total counts the indexed NFTs matching them.
C3_OnlyMatchingNonEmpty ==
    nftResp.status = 200 =>
        /\ \A i \in 1..Len(nftResp.nfts) : MatchesNonEmpty(nftResp.nfts[i], nftReq)
        /\ nftResp.total =
              Cardinality({i \in 1..Len(nft_index) : MatchesNonEmpty(nft_index[i], nftReq)})

C3_Witness ==
    /\ nftResp.status = 200
    /\ nftReq.content_type = Given(IMAGE)
    /\ nftReq.creator = Given(Addr_AB)
    /\ nftResp.total = 1
    /\ Len(nftResp.nfts) = 1
    /\ nftResp.nfts[1].creator_address = Addr_ab
    /\ Len(nft_index) = 3

(***************************************************************************)
(* C4: with the index unchanged, a page of GET /api/nfts holds the items   *)
(* at positions (page-1)*page_size up to page*page_size of the filtered    *)
(* list: at most page_size items, exactly page_size on every page before   *)
(* the last, the same total on every page, and the pages read in order     *)
(* hold every filtered NFT exactly once.                                   *)
(***************************************************************************)
FilteredList(req) == SelectSeq(nft_index, LAMBDA n : MatchesNonEmpty(n, req))

RECURSIVE PagesConcat(_)
PagesConcat(pages) ==
    IF pages = <<>> THEN <<>>
    ELSE PagesConcat(SubSeq(pages, 1, Len(pages) - 1)) \o pages[Len(pages)].nfts

\* C4: each page is its slice of the filtered list, and the pages read in
\* order are the filtered list.
C4_Pagination ==
    nftResp.status = 200 =>
        LET all == FilteredList(nftReq)
            first == (nftReq.page - 1) * nftReq.page_size
            last == nftReq.page * nftReq.page_size
        IN  /\ Len(nftResp.nfts) <= nftReq.page_size
            /\ nftResp.nfts = SubSeq(all, first + 1, Min(last, Len(all)))
            /\ last < Len(all) => Len(nftResp.nfts) = nftReq.page_size
            /\ \A i \in 1..Len(nftPages) : nftPages[i].total = Len(all)
            /\ nftPages # <<>> =>
                  PagesConcat(nftPages) = SubSeq(all, 1, Min(last, Len(all)))

C4_Witness ==
    /\ nftResp.status = 200
    /\ Len(nftPages) = 3
    /\ nftReq.page_size = 1
    /\ nftReq.page = 3
    /\ nftReq.content_type = Given(IMAGE)
    /\ nftResp.total = 2
    /\ Len(nft_index) = 3
    /\ PagesConcat(nftPages) = FilteredList(nftReq)
    /\ nftResp.nfts = <<>>

(***************************************************************************)
(* C5: every GenerationResult whose status is COMPLETED, whether returned  *)
(* by generate() or read through get_job at any moment, also while other   *)
(* generations are in flight, has content, content_hash, model_version,    *)
(* prompt, seed, parameters and timestamp set: is_complete() is true.      *)
(***************************************************************************)
C5_CompletedIsComplete ==
    /\ \A s \in Services : \A j \in DOMAIN gen_jobs[s] :
          gen_jobs[s][j].status = "COMPLETED" => is_complete(gen_jobs[s][j])
    /\ \A j \in 1..Len(genCalls) :
          (genCalls[j].pc = "returned" /\ genCalls[j].result.status = "COMPLETED")
              => is_complete(genCalls[j].result)
    /\ (genRead.found /\ genRead.result.status = "COMPLETED")
          => is_complete(genRead.result)

C5_Witness ==
    /\ genRead.found
    /\ genRead.result.status = "COMPLETED"
    /\ genRead.result.content.isStr
    /\ \E j \in 1..Len(genCalls) :
          /\ genCalls[j].pc = "awaiting"
          /\ genCalls[j].service = genCalls[genRead.result.job_id].service

(***************************************************************************)
(* C6 as stated: two calls of generate() with the same seed, the same      *)
(* prompt and the same content type, on one instance or on two, return     *)
(* identical content and an identical content_hash.                        *)
(***************************************************************************)
SameSeedPromptType(c1, c2) ==
    /\ c1.pc = "returned"
    /\ c2.pc = "returned"
    /\ c1.request.seed = c2.request.seed
    /\ c1.request.prompt = c2.request.prompt
    /\ c1.request.content_type = c2.request.content_type

SameOutput(c1, c2) ==
    /\ c1.result.content = c2.result.content
    /\ c1.result.content_hash = c2.result.content_hash

C8_LookupMissIs404 ==
    [][ /\ \A j \in 1..MaxCalls :
              ( ~get_job(ApiService, j).found
                /\ (get_generation_status(j) \/ get_generated_content(j)) )
                  => apiResp' = 404
        /\ \A tok \in 1..MaxTokenId :
              (IndexOfToken(tok) = 0 /\ (get_nft(tok) \/ get_nft_provenance(tok)))
                  => apiResp' = 404
        /\ \A cid \in AllCids :
              (~get_content(cid).ok /\ api_get_content(cid)) => apiGet'.status = 404
        /\ \A h \in RequestIds :
              ( h \notin dna_registry
                /\ (get_dna(h) \/ \E evolved \in Ids : evolve_dna(h, evolved)) )
                  => apiResp' = 404
        /\ \A h1, h2 \in RequestIds :
              ( (h1 \notin dna_registry \/ h2 \notin dna_registry)
                /\ ( check_compatibility(h1, h2)
                     \/ \E child \in Ids : breed_dna(h1, h2, child) ) )
                  => apiResp' = 404
        /\ \A c \in RequestIds :
              (c \notin emotion_profiles /\ get_emotion_profile(c)) => apiResp' = 404
        /\ \A x \in RequestIds :
              (x \notin executions /\ (get_execution_status(x) \/ cancel_execution(x)))
                  => apiResp' = 404
        /\ \A p \in RequestIds :
              (p \notin presets /\ (get_preset(p) \/ delete_preset(p)))
                  => apiResp' = 404
      ]_vars

(***************************************************************************)
(* C9: POST /api/emotion/analyze with none of text, image_base64 and       *)
(* audio_base64, and POST /api/agents/execute with no agent_types and a    *)
(* mode other than ALL, are answered with status 400.                      *)
(***************************************************************************)
C9_InvalidInputIs400 ==
    [][ /\ \A request \in EmotionRequests :
              ( /\ request.text.isNone
                /\ request.image_base64.isNone
                /\ request.audio_base64.isNone
                /\ analyze_emotion(request) ) => apiResp' = 400
        /\ \A request \in AgentRequests :
              ( /\ request.agent_types.isNone
                /\ request.mode # "ALL"
                /\ \E x \in Ids : execute_agents(request, x) ) => apiResp' = 400
      ]_vars

(***************************************************************************)
(* C11: a creator address is accepted only if it is 0x followed by exactly *)
(* 40 hexadecimal characters: validate(), the construction of a            *)
(* GenerationRequest and POST /api/generate reject every other address,    *)
(* and a rejected POST /api/generate creates no job.                       *)
(***************************************************************************)
C11_OnlyHexAddressesAccepted ==
    [][ /\ ( addrCall'.op \in {"validate", "GenerationRequest"}
             /\ ~MatchesAddressPattern(addrCall'.address) )
               => addrCall'.exc = "ValueError"
        /\ ( addrCall'.op = "POST" /\ ~MatchesAddressPattern(addrCall'.address) )
               => ( addrCall'.status \in {400, 422} /\ gen_jobs' = gen_jobs )
      ]_vars

\* validate() has passed a record whose creator_address is 0x followed by
\* forty times the letter z.
C11_Witness ==
    /\ addrCall.op = "validate"
    /\ addrCall.address = NonHexAddress.s
    /\ addrCall.exc = "none"

(***************************************************************************)
(* C12: is_pinned(cid) reflects the last pin-affecting operation on the    *)
(* CID: true after upload_content(..., pin=True) or pin(cid), false after  *)
(* upload_content(..., pin=False) or unpin(cid), and the pinned field of   *)
(* an upload result equals is_pinned of the returned CID right after the   *)
(* upload, also for repeated uploads of the same content.                  *)
(***************************************************************************)
C12_PinnedReflectsLastOperation ==
    /\ ipfsRes.op = "upload" => (is_pinned(ipfsRes.cid) <=> ipfsRes.pinned)
    /\ (ipfsRes.op = "pin" /\ ipfsRes.ok) => is_pinned(ipfsRes.cid)
    /\ ipfsRes.op = "unpin" => ~is_pinned(ipfsRes.cid)

\* A content that is pinned has been uploaded again with pin=False: the
\* result says it is not pinned and is_pinned says it is.
C12_Witness ==
    /\ ipfsRes.op = "upload"
    /\ ~ipfsRes.pinned
    /\ is_pinned(ipfsRes.cid)
    /\ ~ipfs_metadata[ipfsRes.cid].pinned

(***************************************************************************)
(* C13: get_content(cid) and pin(cid) raise ValueError for a CID that was  *)
(* never uploaded, and the failed call leaves the stored contents, the pin *)
(* set and the per-CID metadata unchanged.                                 *)
(***************************************************************************)
C13_UnknownCidRaises ==
    [][ \A cid \in AllCids :
           ( /\ cid \notin {u.cid : u \in uploads}
             /\ (get_content_call(cid) \/ pin(cid)) )
               => /\ ~ipfsRes'.ok
                  /\ ipfsRes'.cid = cid
                  /\ UNCHANGED <<storage, pins, ipfs_metadata>>
      ]_vars

\* pin has failed for a CID that was never uploaded, after an unpin of that
\* CID, while another content is stored and pinned.
C13_Witness ==
    /\ ipfsRes.op = "pin"
    /\ ~ipfsRes.ok
    /\ ipfsRes.cid \notin {u.cid : u \in uploads}
    /\ ipfsRes.cid \notin DOMAIN storage
    /\ pins # {}
    /\ ipfsRes.cid \notin pins

(***************************************************************************)
(* C14: every job id issued by generate() stays retrievable in every later *)
(* state; get_job returns the record with that job id and, once generate() *)
(* has returned, the status it returned; get_job of an id that was never   *)
(* issued by the instance returns None, and GET /api/generate/{job_id}     *)
(* answers 404 for it.                                                     *)
(***************************************************************************)
C14_JobsTrackable ==
    /\ [] ( /\ \A j \in 1..Len(genCalls) :
                  LET call == genCalls[j]
                      read == get_job(call.service, j)
                  IN  /\ read.found
                      /\ read.result.job_id = j
                      /\ read.result.prompt.s = call.request.prompt
                      /\ call.pc = "returned" => read.result.status = call.result.status
            /\ \A s \in Services : \A j \in 1..(MaxCalls + 1) :
                  (j > Len(genCalls) \/ genCalls[j].service # s)
                      => ~get_job(s, j).found )
    /\ [][ \A j \in 1..MaxCalls :
               (j > Len(genCalls) /\ get_generation_status(j)) => apiResp' = 404
         ]_vars

\* Two jobs have been issued, the first has returned COMPLETED and the
\* second is still awaited, and a status request has been answered.
C14_Witness ==
    /\ Len(genCalls) = 2
    /\ genCalls[1].pc = "returned"
    /\ genCalls[1].result.status = "COMPLETED"
    /\ genCalls[2].pc = "awaiting"
    /\ get_job(ApiService, 1).result.status = "COMPLETED"
    /\ get_job(ApiService, 2).result.status = "IN_PROGRESS"
    /\ apiResp = 200


(***************************************************************************)
(* C15: execute_chain runs the agents in the order of chain_config: an     *)
(* agent is RUNNING only when every earlier agent of the chain has been    *)
(* set COMPLETED, at most one agent of the chain is RUNNING, each agent    *)
(* receives the original input_data updated with the results of all        *)
(* earlier agents, and the caller's input_data is not modified.            *)
(***************************************************************************)
RECURSIVE ChainInput(_, _)
ChainInput(run, i) ==
    IF i = 1 THEN run.original
    ELSE DictUpdate(ChainInput(run, i - 1), run.results[i - 1])

C15_ChainInOrder ==
    \A execution_id \in DOMAIN agentRuns :
        LET run == agentRuns[execution_id]
            agents == agent_executions[execution_id].agents
        IN  run.method = "execute_chain" =>
              /\ Cardinality({t \in DOMAIN agents : agents[t].status = "RUNNING"}) <= 1
              /\ \A t \in DOMAIN agents :
                    agents[t].status = "RUNNING" =>
                        /\ run.pos \in 1..Len(run.types)
                        /\ t = run.types[run.pos]
                        /\ \A j \in 1..(run.pos - 1) :
                              /\ run.outcome[j] = "completed"
                              /\ run.types[j] # t => agents[run.types[j]].status = "COMPLETED"
              /\ \A i \in 1..Len(run.types) :
                    run.tasks[i] # "created" =>
                        /\ \A j \in 1..(i - 1) : run.tasks[j] = "done"
                        /\ run.received[i] = ChainInput(run, i)
              /\ run.input_data = run.original

\* C15: the chain DNA, MUSIC, TEXT has run to its end on an input_data that
\* holds a "status" of its own: the third agent received the results of the
\* first two, and the caller's dictionary still holds its own "status".
C15_Witness ==
    \E execution_id \in DOMAIN agentRuns :
        LET run == agentRuns[execution_id]
        IN  /\ run.method = "execute_chain"
            /\ run.types = <<"DNA", "MUSIC", "TEXT">>
            /\ run.pc = "returned"
            /\ \A i \in 1..3 : run.outcome[i] = "completed"
            /\ run.original = [prompt |-> "p", status |-> "mine"]
            /\ run.input_data = run.original
            /\ run.received[3].status = "success"
            /\ run.received[3].evolved_dna = "evolved"
            /\ run.received[3].audio_url = "generated_music.mp3"
            /\ agent_executions[execution_id].completed_at


(***************************************************************************)
(* C16: execute_custom and execute_all run the requested agents in         *)
(* parallel: when the first of them ends, every requested agent has been   *)
(* started (its entry is RUNNING since started_at and its task exists,     *)
(* and without a raising callback its coroutine is past its first step);   *)
(* the call returns only when no requested agent is RUNNING any more; and  *)
(* the returned result holds one progress entry per requested agent type,  *)
(* all seven for execute_all, with completed_at and total_time_ms set.     *)
(***************************************************************************)
C16_ParallelRun ==
    \A execution_id \in DOMAIN agentRuns :
        LET run == agentRuns[execution_id]
            execution == agent_executions[execution_id]
            requested == {run.types[i] : i \in 1..Len(run.types)}
            positions == 1..Len(run.types)
        IN  run.method \in {"execute_custom", "execute_all"} =>
              /\ (\E i \in positions : run.tasks[i] = "done") =>
                    /\ \A t \in requested : execution.agents[t].started_at
                    /\ run.callback = "none" =>
                          \A j \in positions : run.tasks[j] # "created"
              /\ run.pc = "returned" =>
                    /\ \A i \in positions : run.tasks[i] = "done"
                    /\ \A t \in requested :
                          execution.agents[t].status \in {"COMPLETED", "FAILED"}
                    /\ DOMAIN execution.agents = requested
                    /\ run.method = "execute_all" =>
                          (DOMAIN execution.agents = AgentTypes
                              /\ Cardinality(DOMAIN execution.agents) = 7)
                    /\ execution.completed_at
                    /\ execution.total_time_ms

\* C16: execute_all has returned: its seven agents are COMPLETED with their
\* results, and total_time_ms is set.
C16_Witness ==
    \E execution_id \in DOMAIN agentRuns :
        /\ agentRuns[execution_id].method = "execute_all"
        /\ agentRuns[execution_id].pc = "returned"
        /\ \A t \in AgentTypes :
              /\ agent_executions[execution_id].agents[t].status = "COMPLETED"
              /\ agent_executions[execution_id].agents[t].result.status = "success"
        /\ agent_executions[execution_id].total_time_ms


(***************************************************************************)
(* C17: after cancel_execution(execution_id) has returned True, every      *)
(* agent of that execution that was RUNNING at the call has status         *)
(* CANCELLED and keeps it; for an execution id that was never issued the   *)
(* call returns False and the handler answers 404.                         *)
(***************************************************************************)
C17_CancelledStays ==
    \A k \in DOMAIN agentCancels :
        LET cancel == agentCancels[k]
        IN  /\ cancel.returned =>
                  \A t \in cancel.running :
                      agent_executions[cancel.execution_id].agents[t].status = "CANCELLED"
            /\ cancel.execution_id \notin DOMAIN agent_executions =>
                  (~cancel.returned /\ cancel.http = 404)

\* C17: cancel_execution returned True for an execution whose TextGeneration
\* agent was RUNNING, and that agent is COMPLETED now, with its result.
C17_Witness ==
    \E k \in DOMAIN agentCancels :
        LET cancel == agentCancels[k]
        IN  /\ cancel.returned
            /\ "TEXT" \in cancel.running
            /\ agent_executions[cancel.execution_id].agents["TEXT"].status = "COMPLETED"
            /\ agent_executions[cancel.execution_id].agents["TEXT"].result.status = "success"

\* C17, the part that holds: an unknown execution id gives False and 404 and
\* changes nothing, and a cancel that returned True left no agent of the
\* execution RUNNING at that moment.
C17_UnknownIdIsRefused ==
    [][\A execution_id \in 1..(MaxExecutions + 1) :
          controller_cancel_execution(execution_id) =>
              LET cancel == agentCancels'[Len(agentCancels')]
              IN  IF execution_id \in DOMAIN agent_executions
                  THEN /\ cancel.returned
                       /\ \A t \in DOMAIN agent_executions'[execution_id].agents :
                             agent_executions'[execution_id].agents[t].status # "RUNNING"
                  ELSE /\ ~cancel.returned /\ cancel.http = 404
                       /\ UNCHANGED <<agent_cancelled, agent_executions>>]_vars


(***************************************************************************)
(* C18: get_wallet_data(address) returns the cached snapshot of the        *)
(* lower-cased address exactly when that snapshot's last_updated is less   *)
(* than 30 seconds before the call, and then changes nothing; otherwise    *)
(* it fetches, and what it returns is the snapshot it has just stored      *)
(* under the lower-cased address, stamped with the time of the return. No  *)
(* call returns a snapshot whose last_updated is 30 seconds or more old.   *)
(***************************************************************************)
C18_CachedOnlyWhileFresh ==
    /\ [][\A address \in WalletAddresses :
            get_wallet_data(address) =>
                LET key == Lower(address)
                IN  IF /\ key \in DOMAIN wallet_cache
                       /\ walletClock - wallet_cache[key].last_updated * TicksPerSecond
                              < 30 * TicksPerSecond
                    THEN /\ walletRes'.call = walletMade'
                         /\ walletRes'.from_cache
                         /\ walletRes'.snapshot = wallet_cache[key]
                         /\ UNCHANGED <<wallet_cache, walletCalls, gasCalls>>
                    ELSE /\ UNCHANGED <<walletRes, wallet_cache>>
                         /\ \E c \in walletCalls' \ walletCalls :
                               c.call = walletMade' /\ c.address = address]_vars
    /\ [][\A c \in walletCalls :
            (fetch_wallet_data_done(c) \/ fetch_wallet_data_except_done(c)) =>
                /\ walletRes'.call = c.call
                /\ ~walletRes'.from_cache
                /\ Lower(c.address) \in DOMAIN wallet_cache'
                /\ wallet_cache'[Lower(c.address)] = walletRes'.snapshot
                /\ walletRes'.snapshot.last_updated = walletClock \div TicksPerSecond]_vars
    /\ [][walletRes' # walletRes =>
            walletClock' - walletRes'.snapshot.last_updated * TicksPerSecond
                < 30 * TicksPerSecond]_vars

\* C18: the snapshot fetched for "0xab" at second 0 has been returned from
\* the cache to a call for "0xAB" made 29.5 seconds later.
C18_Witness ==
    /\ walletClock = 59
    /\ walletRes # NoReturn
    /\ walletRes.call = 2
    /\ walletRes.from_cache
    /\ walletRes.address = Addr_AB
    /\ walletRes.snapshot.address = Addr_ab
    /\ walletRes.snapshot.last_updated = 0


(***************************************************************************)
(* C19: when the RPC of get_gas_price fails, times out or returns no       *)
(* 'result', the call returns the mock estimate (base_fee 20, slow 21,     *)
(* standard 23, fast 30, instant 45) and caches it; and a call made less   *)
(* than 15 seconds after an estimate was cached returns that estimate      *)
(* without an RPC.                                                         *)
(***************************************************************************)
C19_MockOnFailure ==
    \A g \in gasCalls : \A response \in RpcResponses :
        (get_gas_price_rpc_done(g, response) /\ response.kind # "result") =>
            /\ gasRes'.call = g.call
            /\ gasRes'.estimate.base_fee = 20
            /\ gasRes'.estimate.slow = 21
            /\ gasRes'.estimate.standard = 23
            /\ gasRes'.estimate.fast = 30
            /\ gasRes'.estimate.instant = 45
            /\ gas_price_cache' = gasRes'.estimate

C19_CachedFor15Seconds ==
    /\ [][C19_MockOnFailure]_vars
    /\ [][(/\ get_gas_price
           /\ ~gas_price_cache.isNone
           /\ walletClock - gasCachedAt < 15 * TicksPerSecond) =>
              /\ UNCHANGED <<gasCalls, gas_price_cache>>
              /\ gasRes'.call = walletMade'
              /\ ~gasRes'.rpc
              /\ gasRes'.estimate = gas_price_cache]_vars

\* C19: the RPC of a call made at second 0 timed out at second 10 and the
\* mock estimate was cached; a call made at second 15, five seconds after
\* that, has sent a new RPC.
C19_Witness ==
    /\ gas_price_cache = GasPrice(21, 23, 30, 45, 20, 0)
    /\ gas_price_updated = 0
    /\ gasCachedAt = 10 * TicksPerSecond
    /\ \E g \in gasCalls : g.slot = 0 /\ g.call = 2 /\ g.started = 15 * TicksPerSecond

\* C19, what the code does: the age of the cached estimate is counted in
\* whole seconds from the start of the call that fetched it.
C19_FreshByCallStart ==
    /\ [][C19_MockOnFailure]_vars
    /\ [][get_gas_price =>
            IF /\ ~gas_price_cache.isNone
               /\ (walletClock \div TicksPerSecond) - gas_price_updated < 15
            THEN /\ UNCHANGED <<gasCalls, gas_price_cache>>
                 /\ gasRes'.call = walletMade'
                 /\ ~gasRes'.rpc
                 /\ gasRes'.estimate = gas_price_cache
            ELSE /\ UNCHANGED <<gasRes, gas_price_cache>>
                 /\ \E g \in gasCalls' \ gasCalls :
                       g.call = walletMade' /\ g.slot = 0]_vars


(***************************************************************************)
(* C20: breed_dna(p1, p2) with both hashes registered returns a child of   *)
(* generation max(generation of p1, generation of p2) + 1 with             *)
(* parent_hashes [p1, p2] and registers it under its dna_hash, where       *)
(* get_dna finds it; if either hash is not registered it raises ValueError *)
(* (404 on POST /api/dna/breed) and leaves the registry unchanged.         *)
(***************************************************************************)
C20_BreedRegistersChild ==
    [][\A p1, p2 \in DnaHashInputs :
          engine_breed_dna(p1, p2) =>
              IF p1 \in DOMAIN engine_registry /\ p2 \in DOMAIN engine_registry
              THEN LET g1 == engine_registry[p1].generation
                       g2 == engine_registry[p2].generation
                       child == dnaRes'.dna
                   IN  /\ dnaRes'.raised = "none"
                       /\ dnaRes'.http = 200
                       /\ child.generation = (IF g1 > g2 THEN g1 ELSE g2) + 1
                       /\ child.parent_hashes = <<p1, p2>>
                       /\ ~engine_get_dna(engine_registry', child.dna_hash).isNone
                       /\ engine_get_dna(engine_registry', child.dna_hash).dna = child
              ELSE /\ dnaRes'.raised = "ValueError"
                   /\ dnaRes'.http = 404
                   /\ UNCHANGED engine_registry]_vars

\* C20: a child of generation 2 has been bred from a parent of generation 0
\* and a parent of generation 1, and the registry holds it under its hash.
C20_Witness ==
    /\ dnaRes.op = "breed"
    /\ dnaRes.raised = "none"
    /\ dnaRes.dna.generation = 2
    /\ Len(dnaRes.dna.parent_hashes) = 2
    /\ dnaRes.dna.parent_hashes[1] # dnaRes.dna.parent_hashes[2]
    /\ dnaRes.dna.parent_hashes[1] \in DOMAIN engine_registry
    /\ engine_registry[dnaRes.dna.parent_hashes[1]].generation = 0
    /\ engine_registry[dnaRes.dna.dna_hash] = dnaRes.dna

(***************************************************************************)
(* C21: a search request that names no category, POST /api/search without  *)
(* 'categories' or GET /api/search without 'category', returns the result  *)
(* lists and total_results of the same query searched with category ALL.   *)
(***************************************************************************)
C21_NoCategoryIsAll ==
    (searchRes.method # "none" /\ searchRes.status = 200 /\ ~searchRes.named)
        => searchRes.body
               = executor_search(searchRes.query, SomeList(<<Category_ALL>>), searchRes.limit)

\* C21: a POST without 'categories' for the query "eth" was answered with no
\* result at all, while category ALL finds a token and an NFT for it.
C21_Witness ==
    /\ searchRes.method = "POST" /\ searchRes.status = 200 /\ ~searchRes.named
    /\ searchRes.query = <<101, 116, 104>>
    /\ searchRes.body.total_results = 0
    /\ executor_search(searchRes.query, SomeList(<<Category_ALL>>),
                       searchRes.limit).total_results = 2

\* C21: total_results of every answer is the sum of the lengths of its five
\* result lists.
C21_TotalIsSum ==
    (searchRes.method # "none" /\ searchRes.status = 200)
        => searchRes.body.total_results
               = Len(searchRes.body.transactions) + Len(searchRes.body.addresses)
                 + Len(searchRes.body.tokens) + Len(searchRes.body.nfts)
                 + Len(searchRes.body.blocks)

C23_LastThousandKept ==
    /\ \A c \in ContentIds :
           DictGet(emotion_history, c, <<>>)
               = LastEntries(emotionLog[c], Min(Len(emotionLog[c]), HISTORY_LIMIT))
    /\ \A c \in DOMAIN emotion_history : Len(emotion_history[c]) <= HISTORY_LIMIT
    /\ emotionRes.interaction_count <= HISTORY_LIMIT
    /\ emotionRes.content_id # "none"
           => emotionRes.interaction_count <= Len(emotionLog[emotionRes.content_id])

\* C23: 1002 states were recorded for content "a" and one for content "b";
\* the history of "a" has lost its two oldest entries and resonance counts
\* 1000 interactions for it.
C23_Witness ==
    /\ Len(emotionLog["a"]) = HISTORY_LIMIT + 2
    /\ Len(emotionLog["b"]) = 1
    /\ Len(emotion_history["a"]) = HISTORY_LIMIT
    /\ emotion_history["a"][1] = emotionLog["a"][3]
    /\ emotionRes.content_id = "a"
    /\ emotionRes.interaction_count = HISTORY_LIMIT

(***************************************************************************)
(* C24: breed_dna and evolve_dna only add a record to the DNA registry:    *)
(* every record registered before the call is registered afterwards under  *)
(* the same hash with the same genes, generation and parent_hashes, and no *)
(* record lists its own hash among its parent_hashes.                      *)
(***************************************************************************)
C24_RegistryOnlyGrows ==
    /\ [][ (dnaMade' = dnaMade + 1 /\ dnaRes'.op \in {"breed", "evolve"})
              => \A h \in DOMAIN engine_registry :
                     /\ h \in DOMAIN engine_registry'
                     /\ engine_registry'[h] = engine_registry[h] ]_vars
    /\ [](\A h \in DOMAIN engine_registry :
              \A i \in 1..Len(engine_registry[h].parent_hashes) :
                  engine_registry[h].parent_hashes[i] # h)

\* C24: a genome generated from a prompt was bred with itself; the child has
\* the parent's gene values and so its hash, and the registry now holds the
\* child under that hash: generation 1, both parent_hashes its own hash.
C24_Witness ==
    /\ dnaRes.op = "breed" /\ dnaRes.raised = "none"
    /\ dnaRes.dna.dna_hash = DnaHash(PromptGenes("a"))
    /\ dnaRes.dna.parent_hashes = <<dnaRes.dna.dna_hash, dnaRes.dna.dna_hash>>
    /\ engine_registry[dnaRes.dna.dna_hash].generation = 1
    /\ engine_registry[dnaRes.dna.dna_hash].parent_hashes = dnaRes.dna.parent_hashes

(***************************************************************************)
(* C25: cancelling one execution does not affect another: every agent of   *)
(* an execution that was not itself cancelled, started before or after the *)
(* cancellation, runs to its 'success' result and ends COMPLETED.          *)
(***************************************************************************)
C25_CancelIsLocal ==
    \A e \in DOMAIN agent_executions :
        ( /\ agentRuns[e].pc = "returned"
          /\ agentRuns[e].callback = "none"
          /\ \A c \in 1..Len(agentCancels) : agentCancels[c].execution_id # e )
            => \A i \in 1..Len(agentRuns[e].types) :
                   /\ agentRuns[e].results[i].status = "success"
                   /\ agent_executions[e].agents[agentRuns[e].types[i]].status = "COMPLETED"

\* C25: execution 1 was cancelled while its image agent ran; execution 2, a
\* chain that was never cancelled, has returned with the image agent's
\* result 'cancelled', which it handed on to the text agent.
C25_Witness ==
    /\ Len(agent_executions) = 2
    /\ agentCancels = <<[execution_id |-> 1, returned |-> TRUE, running |-> {"IMAGE"},
                         http |-> 200]>>
    /\ agentRuns[1].pc = "returned"
    /\ agentRuns[2].pc = "returned"
    /\ agentRuns[2].method = "execute_chain"
    /\ agentRuns[2].results[1] = CANCELLED_RESULT
    /\ agentRuns[2].received[2].status = "cancelled"
    /\ agent_executions[2].agents["IMAGE"].status = "COMPLETED"

(***************************************************************************)
(* C26: a generation job is registered with status IN_PROGRESS; its status *)
(* changes once, to COMPLETED, FAILED or TIMEOUT, in the step in which     *)
(* generate() returns, and never again; no job has status PENDING; and a   *)
(* generate() call writes the job record of its own job id only, the ids   *)
(* of concurrent calls being distinct.                                     *)
(***************************************************************************)
FinalStatuses == {"COMPLETED", "FAILED", "TIMEOUT"}

C26_OneWayStatus ==
    /\ [](\A j \in 1..Len(genCalls) :
              LET s == genCalls[j].service
              IN  /\ j \in DOMAIN gen_jobs[s]
                  /\ \A o \in Services \ {s} : j \notin DOMAIN gen_jobs[o]
                  /\ gen_jobs[s][j].job_id = j
                  /\ gen_jobs[s][j].status # "PENDING"
                  /\ genCalls[j].pc = "awaiting" <=> gen_jobs[s][j].status = "IN_PROGRESS"
                  /\ genCalls[j].pc = "returned" <=> gen_jobs[s][j].status \in FinalStatuses)
    /\ [][\A s \in Services :
              /\ \A j \in DOMAIN gen_jobs'[s] \ DOMAIN gen_jobs[s] :
                     gen_jobs'[s][j].status = "IN_PROGRESS"
              /\ \A j \in DOMAIN gen_jobs[s] :
                     /\ j \in DOMAIN gen_jobs'[s]
                     /\ gen_jobs'[s][j] # gen_jobs[s][j]
                            => /\ gen_jobs[s][j].status = "IN_PROGRESS"
                               /\ gen_jobs'[s][j].status \in FinalStatuses
                               /\ genCalls[j].pc = "awaiting"
                               /\ genCalls'[j].pc = "returned"
                               /\ \A k \in DOMAIN gen_jobs[s] \ {j} :
                                      gen_jobs'[s][k] = gen_jobs[s][k]]_vars

\* C26: two generate() calls ran concurrently on one service: the second
\* has returned, its job FAILED or TIMEOUT, while the job of the first,
\* started earlier, is still IN_PROGRESS.
C26_Witness ==
    /\ Len(genCalls) = 2
    /\ genCalls[1].service = genCalls[2].service
    /\ genCalls[1].pc = "awaiting"
    /\ gen_jobs[genCalls[1].service][1].status = "IN_PROGRESS"
    /\ genCalls[2].pc = "returned"
    /\ gen_jobs[genCalls[2].service][2].status \in {"FAILED", "TIMEOUT"}

(***************************************************************************)
(* C27: in every state every websocket of a wallet_subscriptions set is in *)
(* active_connections['wallet'], wallet_subscriptions holds no empty set,  *)
(* and the wallet_connections figure of GET /api/system/status is at most  *)
(* the number of registered wallet connections.                            *)
(***************************************************************************)
C27_SubscribersAreActive ==
    /\ \A a \in DOMAIN wallet_subscriptions :
           /\ wallet_subscriptions[a] # {}
           /\ wallet_subscriptions[a] \subseteq DictGet(active_connections, "wallet", {})
    /\ wallet_connections <= Cardinality(DictGet(active_connections, "wallet", {}))

\* C27: a broadcast_to_type over the wallet connections has ended after a
\* send failed: the websocket is no longer a registered wallet connection
\* but still in the subscription set of its address, and the status figure
\* counts one wallet connection more than there are.
C27_Witness ==
    /\ bcast.pc = "done" /\ bcast.kind = "type" /\ bcast.key = "wallet"
    /\ \E websocket \in bcast.disconnected :
           /\ websocket \notin active_connections["wallet"]
           /\ \E a \in DOMAIN wallet_subscriptions : websocket \in wallet_subscriptions[a]
    /\ wallet_connections = Cardinality(active_connections["wallet"]) + 1

(***************************************************************************)
(* C28: when a broadcast_to_type has ended, every connection of the type   *)
(* that stayed registered for the whole broadcast and whose send did not   *)
(* fail has received the message, also when websockets connected or        *)
(* disconnected during a send.                                             *)
(***************************************************************************)
C28_DeliveredToAllThatStay ==
    (bcast.kind = "type" /\ bcast.pc \in {"done", "RuntimeError"})
        => (bcast.stayed \ bcast.disconnected) \subseteq bcast.delivered

\* C28: a websocket connected or disconnected while a broadcast_to_type
\* was suspended in a send; the loop ended with RuntimeError and a
\* connection registered from before the broadcast until now got nothing.
C28_Witness ==
    /\ bcast.kind = "type" /\ bcast.pc = "RuntimeError"
    /\ \E websocket \in bcast.stayed :
           /\ websocket \in active_connections[bcast.key]
           /\ websocket \in wsLive
           /\ websocket \notin bcast.visited

\* C28: a failing send removes only the connection it failed for, and the
\* connections after it are still served.
C28_FailureIsLocal ==
    [][(bcast.pc = "sending" /\ bcast'.pc = "done" /\ bcast.kind = "type")
          => /\ active_connections'[bcast.key]
                    = active_connections[bcast.key] \ bcast'.disconnected
             /\ bcast'.visited = bcast'.delivered \cup bcast'.disconnected]_vars

(***************************************************************************)
(* C29: every GasPrice that get_gas_price returns satisfies                *)
(* 1 <= slow <= standard <= fast <= instant, whatever price the RPC node   *)
(* reports, prices below 1 Gwei included, and for the mock fallback.       *)
(***************************************************************************)
C29_GasPriceOrdered ==
    gasRes.call # 0
        => /\ 1 <= gasRes.estimate.slow
           /\ gasRes.estimate.slow <= gasRes.estimate.standard
           /\ gasRes.estimate.standard <= gasRes.estimate.fast
           /\ gasRes.estimate.fast <= gasRes.estimate.instant

\* C29: the node reported a price below 1 Gwei; get_gas_price returned an
\* estimate with slow 1 above standard 0, and cached it.
C29_Witness ==
    /\ gasRes.call # 0
    /\ gasRes.rpc
    /\ gasRes.estimate.base_fee = 0
    /\ gasRes.estimate.slow = 1
    /\ gasRes.estimate.standard = 0
    /\ ~gas_price_cache.isNone
    /\ gas_price_cache.standard = 0

(***************************************************************************)
(* C30: _last_processed_block never decreases, and no two entries of the   *)
(* processed-event list have the same contract address and block number,   *)
(* for handlers that return, raise or suspend and for start_listening      *)
(* called again after stop_listening or while a loop is running.           *)
(***************************************************************************)
C30_EachBlockOnce ==
    /\ [](\A i, j \in 1..Len(_processed_events) :
              _processed_events[i] = _processed_events[j] => i = j)
    /\ [][_last_processed_block' >= _last_processed_block]_vars

\* C30: start_listening was called twice; while the handler of the first
\* loop was suspended the second loop polled the same block, and the list
\* now holds the Minted event of contract 0xc1 in block 1 twice.
C30_Witness ==
    /\ \A l \in ListenerLoops : listenerLoops[l].pc # "none"
    /\ Len(_processed_events) >= 2
    /\ _processed_events[1] = [contract_address |-> "0xc1", block_number |-> 1]
    /\ _processed_events[2] = _processed_events[1]

\* C30: an exception raised by a handler does not stop the loop, and the
\* event is recorded: the loop goes on with the next contract.
C30_HandlerErrorIsContained ==
    /\ [](\A e \in handlerRaised : \E i \in 1..Len(_processed_events) : _processed_events[i] = e)
    /\ [][\A l \in ListenerLoops :
              (_handle_event(l, "raises") \/ handler_done(l, TRUE))
                  => /\ listenerLoops'[l].pc = "running"
                     /\ listenerLoops'[l].position = listenerLoops[l].position + 1]_vars

====
